---- MODULE Spec2Model ----
(***************************************************************************)
(* A model of the crawlifyrs crawler core: the Frontier (per-host priority *)
(* queues with a seen-set, a capacity cap and a politeness delay), its     *)
(* persistence through Storage, the two-phase crawl loop (Discovery, then  *)
(* Export behind the keyword gate and the Deduplicator), and the retry     *)
(* loop of HttpClient::get_with_retry.                                     *)
(*                                                                         *)
(* Strings are tuples of one-character strings, so that String::contains   *)
(* and str::len are computed rather than assumed.  Time is the reading of  *)
(* the monotonic clock in ticks; one second is TicksPerSec ticks.          *)
(***************************************************************************)
EXTENDS Integers, Sequences, FiniteSets, Bags, TLC

VARIABLES
    frontier,      \* the Frontier under test: [host_queues, seen_urls, size]
    now,           \* the monotonic clock (Instant::now()), in ticks
    lastCall,      \* the last Frontier call: its URL argument and its result
    popped,        \* per URL, how many times get_next_url has returned it
    lastPopAt,     \* per host, the clock reading of its last pop (Never: none)
    internal,      \* the URLs admitted by an add_url that found them internal
    blob,          \* Storage's slot for the frontier snapshot
    saved,         \* the Frontier handed to the last save_state, if any
    loaded,        \* what load_state returned after that save_state
    pc,            \* where run_crawler_loop stands
    permits,       \* free permits of discovery_semaphore
    handles,       \* discovery_handles: the tasks spawned and not yet joined
    joining,       \* the task whose handle the main loop awaits (0: none)
    tasks,         \* the discovery tasks spawned so far, in order
    adders,        \* the tasks whose detached add-outlinks task has yet to run
    discovered,    \* discovered_urls: per URL, how often it was appended
    empty_checks,  \* discovery_empty_checks
    wake,          \* when the sleep of the main loop ends
    host_states,   \* HttpClient::host_states: per host, last_request_at
    run,           \* which crawl command on this store is running (1, 2)
    export_permits,\* free permits of export_semaphore
    export_tasks,  \* per URL, the export task dispatched for it, if any
    export_file,   \* the JSONL export file: the bag of records written
    pages,         \* the rows of the store's pages table
    http_call,     \* the get_with_retry call under test
    dup_call,      \* the last is_duplicate call: its page and its result
    active_scopes, \* the active rows of the store's scopes table, in order
    stdout,        \* what a crawl command that found no scope has printed
    requests_total,\* Metrics::requests_total of the running crawl command
    crawler,       \* the Crawler of a crawl command: its own frontier, and
                   \* how many of the runs for the active scopes have begun
    staged,        \* the rows of the store's staged_urls table
    fn_call,       \* the last call of a pure function: its input and result
    sink,          \* the JsonlExporter under concurrent export_enhanced calls
    sync           \* the locks, permits and task positions of one run

frontierVars == <<frontier, now, lastCall, popped, lastPopAt, internal, blob,
                  saved, loaded>>
crawlVars == <<pc, permits, handles, joining, tasks, adders, discovered,
               empty_checks, wake, host_states>>
exportVars == <<run, export_permits, export_tasks, export_file, pages>>
callVars == <<http_call, dup_call>>
cmdVars == <<active_scopes, stdout, requests_total, crawler>>
unitVars == <<staged, fn_call, sink, sync>>
vars == <<frontierVars, crawlVars, exportVars, callVars, cmdVars, unitVars>>

(***************************************************************************)
(* Bounds of the model.                                                    *)
(***************************************************************************)
TicksPerSec == 2      \* clock resolution: ticks per second
MaxTime == 4          \* the clock stops advancing at this reading
MaxQueue == 2         \* the capacity used for MAX_QUEUE_SIZE in the model
MaxCrawlTime == 8     \* the clock stops advancing at this reading in a run
MaxWorkers == 2       \* the permits used for global_concurrency in the model
MaxWriters == 3       \* the workers that call export_enhanced at once
MaxQueryLen == 3      \* the longest query string handed to canonicalize_url
MaxSitemap == 2       \* the most events (entries, malformed markup) of a sitemap

(***************************************************************************)
(* Program constants.                                                      *)
(***************************************************************************)
\* frontier.rs:10 (1_000_000 in the source; scaled to the model's bound so
\* that the cap is reached)
MAX_QUEUE_SIZE == MaxQueue
\* frontier.rs:116, Duration::from_secs(1)
PolitenessDelay == 1 * TicksPerSec
\* frontier.rs:101, i32::MIN
I32_MIN == -2147483647 - 1

\* Option<T>: None and Some(v)
None == [tag |-> "None"]
Some(v) == [tag |-> "Some", value |-> v]

(***************************************************************************)
(* Strings and URLs.                                                       *)
(***************************************************************************)
\* String::contains: s occurs in pat as a contiguous substring
Contains(pat, s) ==
    \E i \in 0..(Len(pat) - Len(s)) : SubSeq(pat, i + 1, i + Len(s)) = s

HostH == <<"h">>
HostOther == <<"o", "t", "h", "e", "r">>
Hosts == {HostH, HostOther}

\* https://h/x
UrlHx == [host |-> HostH, path |-> <<"/", "x">>]
\* https://h/aaaaaaaaaaaaaaaaaaa (a path of exactly 20 characters)
UrlH20 == [host |-> HostH,
           path |-> <<"/", "a", "a", "a", "a", "a", "a", "a", "a", "a",
                      "a", "a", "a", "a", "a", "a", "a", "a", "a", "a">>]
\* https://other/y/very/long/path/segment
UrlOtherLong == [host |-> HostOther,
                 path |-> <<"/", "y", "/", "v", "e", "r", "y", "/", "l", "o",
                            "n", "g", "/", "p", "a", "t", "h", "/", "s", "e",
                            "g", "m", "e", "n", "t">>]
\* the URLs the calls of specification Spec are made with
Urls == {UrlHx, UrlH20, UrlOtherLong}

\* Url::host_str().unwrap_or_default()
HostStr(url) == url.host
\* Url::path()
Path(url) == url.path

\* Scope.pattern "https://h/*"
PatternH == <<"h", "t", "t", "p", "s", ":", "/", "/", "h", "/", "*">>
\* Scope.pattern "https://other/*"
PatternOther == <<"h", "t", "t", "p", "s", ":", "/", "/",
                  "o", "t", "h", "e", "r", "/", "*">>
ScopeH == [id |-> 1, pattern |-> PatternH]
ScopeOther == [id |-> 2, pattern |-> PatternOther]
Scopes == {ScopeH, ScopeOther}

(***************************************************************************)
(* PriorityQueue<Url, i32>: a set of entries, at most one per URL.         *)
(***************************************************************************)
EmptyQueue == {}

\* PriorityQueue::push: inserts the item, or changes its priority if present
Push(q, url, priority) ==
    {e \in q : e.url # url} \cup {[url |-> url, priority |-> priority]}

\* the entries PriorityQueue::peek / pop may yield: those of greatest priority
Top(q) == {e \in q : \A o \in q : o.priority <= e.priority}

\* the priority PriorityQueue::peek reports (q non-empty)
PeekPriority(q) == (CHOOSE e \in Top(q) : TRUE).priority

(***************************************************************************)
(* Frontier (frontier.rs).                                                 *)
(***************************************************************************)
\* Frontier::new
NewFrontier == [host_queues |-> <<>>, seen_urls |-> {}, size |-> 0]

CalcPriorityLe20(url, is_internal, is_sitemap) ==
    (IF is_internal THEN 5 ELSE 0)
    + (IF is_sitemap THEN 3 ELSE 0)
    + (IF Len(Path(url)) <= 20 THEN 1 ELSE 0)

\* calculate_priority
calculate_priority(url, is_internal, is_sitemap) ==
    (IF is_internal THEN 5 ELSE 0)
    + (IF is_sitemap THEN 3 ELSE 0)
    + (IF Len(Path(url)) < 20 THEN 1 ELSE 0)

HasCapacityLe(f) == f.size <= MAX_QUEUE_SIZE

\* Frontier::has_capacity
has_capacity(f) == f.size < MAX_QUEUE_SIZE

AlreadySeenNever(f, url) == FALSE

\* the seen-set test of add_url
AlreadySeen(f, url) == url \in f.seen_urls

\* Frontier::add_url at clock reading t: the Frontier after the call
add_url(f, url, scope, is_sitemap, t) ==
    IF AlreadySeen(f, url) \/ ~has_capacity(f)
    THEN f
    ELSE
        LET host == HostStr(url)
            is_internal == Contains(scope.pattern, host)
            priority == calculate_priority(url, is_internal, is_sitemap)
            hq == IF host \in DOMAIN f.host_queues
                  THEN f.host_queues[host]
                  ELSE [queue |-> EmptyQueue, next_allowed_at |-> t]
            hq2 == [hq EXCEPT !.queue = Push(hq.queue, url, priority)]
        IN  [host_queues |->
                 [h \in (DOMAIN f.host_queues) \cup {host} |->
                      IF h = host THEN hq2 ELSE f.host_queues[h]],
             seen_urls |-> f.seen_urls \cup {url},
             size |-> f.size + 1]

EligibleAlways(hq, t) == hq.queue # EmptyQueue

EligibleStrict(hq, t) == hq.next_allowed_at < t /\ hq.queue # EmptyQueue

EligibleInDelay(hq, t) == hq.next_allowed_at >= t /\ hq.queue # EmptyQueue

\* get_next_url's test of one host: out of its delay and with a URL queued
Eligible(hq, t) == hq.next_allowed_at <= t /\ hq.queue # EmptyQueue

\* the hosts the scan of get_next_url can settle on: an eligible host whose
\* top priority is the greatest (the first such in iteration order wins, and
\* the iteration order of the map is arbitrary)
BestHosts(f, t) ==
    {h \in DOMAIN f.host_queues :
        /\ Eligible(f.host_queues[h], t)
        /\ PeekPriority(f.host_queues[h].queue) > I32_MIN
        /\ \A o \in DOMAIN f.host_queues :
               Eligible(f.host_queues[o], t)
                   => PeekPriority(f.host_queues[o].queue)
                          <= PeekPriority(f.host_queues[h].queue)}

NextAllowedNoDelay(t) == t

NextAllowedHalf(t) == t + PolitenessDelay \div 2

\* the next_allowed_at get_next_url gives the host it pops from
NextAllowed(t) == t + PolitenessDelay

SizeAfterPopKept(f) == f.size

\* the size get_next_url leaves after a pop (self.size -= 1)
SizeAfterPop(f) == f.size - 1

\* Frontier::get_next_url at clock reading t: the possible outcomes, each
\* the Frontier after the call and the value returned
get_next_url(f, t) ==
    IF BestHosts(f, t) = {}
    THEN {[frontier |-> f, result |-> None, priority |-> 0]}
    ELSE UNION {
        {[frontier |->
              [f EXCEPT
                   !.host_queues[h] =
                       [queue |-> f.host_queues[h].queue \ {e},
                        next_allowed_at |-> NextAllowed(t)],
                   !.size = SizeAfterPop(f)],
          result |-> Some(e.url),
          priority |-> e.priority] : e \in Top(f.host_queues[h].queue)}
        : h \in BestHosts(f, t)}

\* Frontier::size
Size(f) == f.size

\* Frontier::is_empty
is_empty(f) == f.size = 0

(***************************************************************************)
(* Persistence (frontier.rs save_state / load_state, storage/mod.rs).      *)
(***************************************************************************)
\* bincode::serialize(&Frontier): next_allowed_at is #[serde(skip)]
Serialize(f) ==
    [host_queues |-> [h \in DOMAIN f.host_queues |-> f.host_queues[h].queue],
     seen_urls |-> f.seen_urls,
     size |-> f.size]

\* bincode::deserialize at clock reading t: next_allowed_at takes its serde
\* default, Instant::now
Deserialize(bytes, t) ==
    [host_queues |-> [h \in DOMAIN bytes.host_queues |->
                          [queue |-> bytes.host_queues[h],
                           next_allowed_at |-> t]],
     seen_urls |-> bytes.seen_urls,
     size |-> bytes.size]

\* Storage::save_frontier_state: the slot after the call (a placeholder in
\* the source: the bytes are dropped and Ok(()) is returned)
save_frontier_state(slot, state) == slot

\* Storage::load_frontier_state: a placeholder in the source, Ok(None)
load_frontier_state(slot) == None

\* Frontier::load_state at clock reading t
load_state(slot, t) ==
    IF load_frontier_state(slot) # None
    THEN Some(Deserialize(load_frontier_state(slot).value, t))
    ELSE None

(***************************************************************************)
(* The seed of a run and the site it crawls (crawler.rs, commands.rs).     *)
(***************************************************************************)
\* str::ends_with
EndsWith(s, suffix) ==
    /\ Len(s) >= Len(suffix)
    /\ SubSeq(s, Len(s) - Len(suffix) + 1, Len(s)) = suffix

\* run_crawler_loop: the pattern without its trailing "/*" or "*"
StripWildcard(root_url) ==
    IF EndsWith(root_url, <<"/", "*">>)
    THEN SubSeq(root_url, 1, Len(root_url) - 2)
    ELSE IF EndsWith(root_url, <<"*">>)
         THEN SubSeq(root_url, 1, Len(root_url) - 1)
         ELSE root_url

\* the length of "https://"
SchemeLen == Len(<<"h", "t", "t", "p", "s", ":", "/", "/">>)

\* Url::parse of an https URL without query or fragment: the host runs up to
\* the first "/" after the scheme, and an empty path becomes "/"
ParseUrl(str) ==
    LET slashes == {i \in (SchemeLen + 1)..Len(str) : str[i] = "/"}
        hostEnd == IF slashes = {} THEN Len(str) + 1
                   ELSE CHOOSE i \in slashes : \A j \in slashes : i <= j
    IN  [host |-> SubSeq(str, SchemeLen + 1, hostEnd - 1),
         path |-> IF hostEnd > Len(str) THEN <<"/">>
                  ELSE SubSeq(str, hostEnd, Len(str))]

\* db.get_active_scopes(): the active scopes of the store, in order
ActiveScopes == <<ScopeH>>

\* the seed crawl hands to run: the pattern of the scope
RootPattern == ActiveScopes[1].pattern

\* https://h, the base URL of the run
UrlHRoot == ParseUrl(StripWildcard(RootPattern))

\* every URL of the model
AllUrls == Urls \cup {UrlHRoot}

\* the site: the <a href> outlinks parser::parse finds on the page of url
\* (PageData::outlinks comes from a HashSet, so in no particular order)
Links(url) ==
    IF url = UrlHRoot THEN {UrlHx, UrlH20, UrlOtherLong}
    ELSE IF url = UrlHx THEN {UrlHRoot}
    ELSE {}

(***************************************************************************)
(* The content pipeline: keyword gate (nlp.rs), content hashes and         *)
(* Deduplicator (deduplication.rs), Page (storage/models.rs) and the       *)
(* lookups of Storage (storage/mod.rs).                                    *)
(***************************************************************************)
\* the site: the main content parser::parse extracts from the page of url
Content(url) ==
    IF url = UrlHRoot THEN <<"c", "r", "a", "w", "l", "e", "r">>
    ELSE IF url = UrlHx THEN <<"C", "r", "a", "w", "l", "e", "r", "s">>
    ELSE <<"n", "e", "w", "s">>

\* config.nlp: enabled, with the keyword list ["crawler"]
NlpConfig == [enabled |-> TRUE,
              keywords |-> {<<"c", "r", "a", "w", "l", "e", "r">>}]

\* the characters of the model's texts, in the order of their codes
Alphabet == <<" ", "C", "a", "c", "e", "l", "n", "r", "s", "w">>

\* the byte of a character (its place in Alphabet stands for it)
Code(c) == CHOOSE i \in 1..Len(Alphabet) : Alphabet[i] = c

\* ASCII lower case of one character (the capitals the model's texts use)
AsciiLower(c) ==
    CASE c = "C" -> "c"
      [] c = "E" -> "e"
      [] c = "H" -> "h"
      [] c = "M" -> "m"
      [] c = "O" -> "o"
      [] c = "P" -> "p"
      [] c = "T" -> "t"
      [] OTHER -> c

\* ASCII lower case of a text
Lower(s) == [i \in 1..Len(s) |-> AsciiLower(s[i])]

\* str::trim for the blanks of the model: leading and trailing " " removed
Trim(s) ==
    LET keep == {i \in 1..Len(s) : s[i] # " "}
    IN  IF keep = {} THEN <<>>
        ELSE SubSeq(s, CHOOSE i \in keep : \A j \in keep : i <= j,
                       CHOOSE i \in keep : \A j \in keep : j <= i)

\* NlpProcessor::new: the matcher over the trimmed keywords when enabled
keyword_matcher(config) ==
    IF config.enabled THEN Some({Trim(k) : k \in config.keywords}) ELSE None

\* KeywordMatcher::find: some keyword occurs in text, ASCII case ignored
Find(keywords, text) ==
    \E k \in keywords : Contains(Lower(text), Lower(k))

IsMatchAlways(matcher, text) == TRUE

\* NlpProcessor::is_match
is_match(matcher, text) ==
    IF matcher # None THEN Find(matcher.value, text) ELSE TRUE

\* NlpProcessor::is_enabled
is_enabled(matcher) == matcher # None

ScoreOutlinkZeroWhenDisabled(matcher, outlink_text) ==
    IF matcher # None /\ Find(matcher.value, outlink_text)
    THEN Some(1)
    ELSE Some(0)

\* NlpProcessor::score_outlink
score_outlink(matcher, outlink_text) ==
    IF matcher # None
    THEN IF Find(matcher.value, outlink_text) THEN Some(1) ELSE Some(0)
    ELSE None

RECURSIVE HashFold(_, _, _)
\* a 16-bit multiplicative hash of s with multiplier m, from state h
HashFold(s, m, h) ==
    IF s = <<>> THEN h
    ELSE HashFold(Tail(s), m, (h * m + Code(Head(s))) % 65536)

\* deduplication::text_hash (xxh3-64 in the source; a 16-bit hash stands for
\* it: deterministic, and not the identity)
text_hash(text) == HashFold(text, 31, 7)

\* deduplication::sim_hash (the source hashes the bytes with DefaultHasher)
sim_hash(text) == HashFold(text, 33, 5381)

\* Page::create: builds the Page and returns it; the store is not touched
\* (a placeholder in the source)
Page_create(store, url, th, sh) ==
    [page |-> [id |-> 1, url |-> url, text_hash |-> th, sim_hash |-> sh,
               etag |-> None, last_modified |-> None],
     store |-> store]

\* Storage::find_pages_by_text_hash: a placeholder in the source, Ok(vec![])
find_pages_by_text_hash(store, th) == {}

\* Storage::find_near_duplicates: a placeholder in the source, Ok(vec![])
find_near_duplicates(store, sh) == {}

\* Deduplicator::is_duplicate
is_duplicate(store, page) ==
    IF page.text_hash # None
           /\ find_pages_by_text_hash(store, page.text_hash.value) # {}
    THEN TRUE
    ELSE IF page.sim_hash # None
                /\ find_near_duplicates(store, page.sim_hash.value) # {}
         THEN TRUE
         ELSE FALSE

(***************************************************************************)
(* The Frontier driven by arbitrary calls (specification Spec).            *)
(***************************************************************************)
NoUrl == [host |-> <<>>, path |-> <<>>]
NoCall == [op |-> "none", url |-> NoUrl, result |-> None, priority |-> 0]
Never == 0 - 1

\* Frontier::new, and a store no snapshot was saved to
InitFrontier ==
    /\ frontier = NewFrontier
    /\ now = 0
    /\ lastCall = NoCall
    /\ popped = [u \in AllUrls |-> 0]
    /\ lastPopAt = [h \in Hosts |-> Never]
    /\ internal = {}
    /\ blob = None
    /\ saved = None
    /\ loaded = None

\* no run has started
InitCrawlIdle ==
    /\ pc = "idle"
    /\ permits = 0
    /\ handles = <<>>
    /\ joining = 0
    /\ tasks = <<>>
    /\ adders = {}
    /\ discovered = [u \in AllUrls |-> 0]
    /\ empty_checks = 0
    /\ wake = 0
    /\ host_states = [h \in Hosts |-> Never]

\* no export task yet, an empty export file, a store without Page rows
NoExportTask == [st |-> "none", ready_at |-> 0, status |-> 0, wrote |-> FALSE]

InitExportIdle ==
    /\ run = 1
    /\ export_permits = 0
    /\ export_tasks = [u \in AllUrls |-> NoExportTask]
    /\ export_file = EmptyBag
    /\ pages = {}

\* no get_with_retry call and no is_duplicate call under way
NoHttpCall == [st |-> "idle", ready_at |-> 0, outcomes |-> <<>>,
               request |-> None, result |-> None, kept |-> FALSE]
NoPage == [id |-> 0, url |-> NoUrl, text_hash |-> None, sim_hash |-> None,
           etag |-> None, last_modified |-> None]
NoDupCall == [called |-> FALSE, page |-> NoPage, result |-> FALSE]

InitCallsIdle ==
    /\ http_call = NoHttpCall
    /\ dup_call = NoDupCall

\* the store has the scope of the crawl active; nothing is printed yet
\* Crawler::new (load_state finds no snapshot); no run for an active scope
\* has begun, so none has left a seen_urls behind
NoCrawler == [frontier |-> NewFrontier, scope |-> 0, earlier |-> {}]

InitCmdIdle ==
    /\ active_scopes = ActiveScopes
    /\ stdout = <<>>
    /\ requests_total = 0
    /\ crawler = NoCrawler

\* no staged URL, no pure function called, no export_enhanced call under way
NoFnCall == [op |-> "none", fn |-> "none"]
NoStaged == [rows |-> {}, handed |-> {}]
NoSink == [mutex |-> 0, writers |-> <<>>, buf |-> <<>>, disk |-> <<>>]
NoSync == [pc |-> "none"]

InitUnitsIdle ==
    /\ staged = NoStaged
    /\ fn_call = NoFnCall
    /\ sink = NoSink
    /\ sync = NoSync

Init ==
    /\ InitFrontier
    /\ InitCrawlIdle
    /\ InitExportIdle
    /\ InitCallsIdle
    /\ InitCmdIdle
    /\ InitUnitsIdle

\* a call of add_url
AddUrl ==
    \E url \in Urls, scope \in Scopes, is_sitemap \in BOOLEAN :
        /\ frontier' = add_url(frontier, url, scope, is_sitemap, now)
        /\ lastCall' = [NoCall EXCEPT !.op = "add_url", !.url = url]
        /\ internal' =
               IF /\ url \in frontier'.seen_urls \ frontier.seen_urls
                  /\ Contains(scope.pattern, HostStr(url))
               THEN internal \cup {url}
               ELSE internal
        /\ saved' = None
        /\ loaded' = None
        /\ UNCHANGED <<now, popped, lastPopAt, blob, crawlVars,
                   exportVars, callVars,
                   cmdVars, unitVars>>

\* a call of get_next_url
GetNextUrl ==
    \E o \in get_next_url(frontier, now) :
        /\ frontier' = o.frontier
        /\ lastCall' = [NoCall EXCEPT !.op = "get_next_url",
                                      !.result = o.result,
                                      !.priority = o.priority]
        /\ IF o.result = None
           THEN UNCHANGED <<popped, lastPopAt>>
           ELSE /\ popped' = [popped EXCEPT ![o.result.value] = @ + 1]
                /\ lastPopAt' =
                       [lastPopAt EXCEPT ![HostStr(o.result.value)] = now]
        /\ saved' = None
        /\ loaded' = None
        /\ UNCHANGED <<now, internal, blob, crawlVars,
                   exportVars, callVars,
                   cmdVars, unitVars>>

\* a call of save_state
SaveState ==
    /\ blob' = save_frontier_state(blob, Serialize(frontier))
    /\ saved' = Some(frontier)
    /\ loaded' = None
    /\ lastCall' = [NoCall EXCEPT !.op = "save_state"]
    /\ UNCHANGED <<frontier, now, popped, lastPopAt, internal, crawlVars,
                   exportVars, callVars,
                   cmdVars, unitVars>>

\* a call of load_state, right after a save_state
LoadState ==
    /\ lastCall.op = "save_state"
    /\ loaded' = load_state(blob, now)
    /\ lastCall' = [NoCall EXCEPT !.op = "load_state"]
    /\ UNCHANGED <<frontier, now, popped, lastPopAt, internal, blob, saved,
                   crawlVars,
                   exportVars, callVars,
                   cmdVars, unitVars>>

\* the monotonic clock advances
Tick ==
    /\ now < MaxTime
    /\ now' = now + 1
    /\ UNCHANGED <<frontier, lastCall, popped, lastPopAt, internal, blob, saved,
                   loaded, crawlVars,
                   exportVars, callVars,
                   cmdVars, unitVars>>

Next == AddUrl \/ GetNextUrl \/ SaveState \/ LoadState \/ Tick

Spec == Init /\ [][Next]_vars

(***************************************************************************)
(* The runs of one crawl command on a store with two active scopes         *)
(* (specification SpecRuns): Crawler::run is called for one scope after    *)
(* the other, and what a run does to its Frontier is any sequence of       *)
(* add_url and get_next_url calls.                                         *)
(***************************************************************************)
\* the store of this command holds both scopes, active
TwoScopes == <<ScopeH, ScopeOther>>

InitRuns ==
    /\ InitFrontier
    /\ InitCrawlIdle
    /\ InitExportIdle
    /\ InitCallsIdle
    /\ active_scopes = TwoScopes
    /\ stdout = <<>>
    /\ requests_total = 0
    /\ crawler = NoCrawler
    /\ InitUnitsIdle

RunFrontierShared(own, last) == last

\* Crawler::run: `let frontier = self.frontier.clone()`, a copy of every
\* queue and of seen_urls, which run_crawler_loop takes as its own
run_frontier(own, last) == own

\* the for loop of commands::crawl calls crawler.run for the next scope;
\* the run before it, if any, has returned and its Frontier is dropped
RunBegin ==
    /\ crawler.scope < Len(active_scopes)
    /\ frontier' = run_frontier(crawler.frontier, frontier)
    /\ crawler' = [crawler EXCEPT
                      !.scope = @ + 1,
                      !.earlier = @ \cup frontier.seen_urls]
    /\ lastCall' = NoCall
    /\ popped' = [u \in AllUrls |-> 0]
    /\ lastPopAt' = [h \in Hosts |-> Never]
    /\ internal' = {}
    /\ UNCHANGED <<now, blob, saved, loaded, crawlVars, exportVars, callVars,
                   active_scopes, stdout, requests_total, unitVars>>

\* the run under way calls add_url on its Frontier
RunAddUrl ==
    /\ crawler.scope > 0
    /\ AddUrl

\* the run under way calls get_next_url on its Frontier
RunGetNextUrl ==
    /\ crawler.scope > 0
    /\ GetNextUrl

NextRuns == RunBegin \/ RunAddUrl \/ RunGetNextUrl \/ Tick

SpecRuns == InitRuns /\ [][NextRuns]_vars

(***************************************************************************)
(* The Frontier when add_url stops being called and the clock keeps        *)
(* running (specification SpecDrain). Only differences of clock readings   *)
(* matter to the Frontier, so from the reading MaxTime on the clock is     *)
(* kept where it is and every stored reading is moved back by one tick     *)
(* instead; a reading in the past stays in the past, so none is moved      *)
(* below 0.                                                                *)
(***************************************************************************)
\* a stored clock reading, one tick further in the past
Earlier(t) == IF t > 0 THEN t - 1 ELSE t

\* the Frontier seen from a clock that has advanced by one tick
Rebase(f) ==
    [f EXCEPT !.host_queues =
        [h \in DOMAIN f.host_queues |->
            [f.host_queues[h] EXCEPT !.next_allowed_at = Earlier(@)]]]

\* a call of add_url; the calls end when the clock reads MaxTime
AddUrlEarly ==
    /\ now < MaxTime
    /\ AddUrl

\* the monotonic clock advances, without end
Advance ==
    /\ now' = IF now < MaxTime THEN now + 1 ELSE now
    /\ frontier' = IF now < MaxTime THEN frontier ELSE Rebase(frontier)
    /\ lastPopAt' = IF now < MaxTime THEN lastPopAt
                    ELSE [h \in Hosts |-> Earlier(lastPopAt[h])]
    /\ UNCHANGED <<lastCall, popped, internal, blob, saved, loaded, crawlVars,
                   exportVars, callVars, cmdVars, unitVars>>

NextDrain == AddUrlEarly \/ GetNextUrl \/ Advance

\* get_next_url keeps being called and time keeps advancing
SpecDrain ==
    Init /\ [][NextDrain]_vars /\ WF_vars(GetNextUrl) /\ WF_vars(Advance)

(***************************************************************************)
(* HttpClient pacing (http.rs), as far as a run's timing needs it: the     *)
(* least time pre_request_delay sleeps.  ewma_rtt >= 0 only lengthens the  *)
(* sleep and the request itself takes time on top, so a fetch may end at   *)
(* any clock reading from the end of the least sleep on.                   *)
(***************************************************************************)
\* config.rs:37 (32 in the source; scaled to the model's bound so that the
\* semaphore is exhausted)
global_concurrency == MaxWorkers

\* crawler.rs:243, Duration::from_millis(100), in whole ticks
SleepTicks == (100 * TicksPerSec) \div 1000

\* pre_request_delay, first request to a host: 1 + host.len() % 5 seconds
FirstDelay(host) == (1 + (Len(host) % 5)) * TicksPerSec

\* pre_request_delay, jitter: 500 + host.len() % 1000 milliseconds, in whole
\* ticks
Jitter(host) == ((500 + (Len(host) % 1000)) * TicksPerSec) \div 1000

\* Result<Response>: Ok(response), of which the status matters, or Err
OkResponse(status) == [tag |-> "Ok", status |-> status]
ErrResponse == [tag |-> "Err", status |-> 0 - 1]

IsSuccessBelow500(status) == status \in 200..499

IsSuccessOrNotFound(status) == status \in 200..299 \/ status = 404

\* StatusCode::is_success
is_success(status) == status \in 200..299

IsServerErrorFrom400(status) == status \in 400..599

\* StatusCode::is_server_error
is_server_error(status) == status \in 500..599

\* what get_with_retry hands a task of a run: a response that is no server
\* error, or the error of its last attempt
FetchResults == {OkResponse(200), OkResponse(404), ErrResponse}

CanAcquireAlways(p) == TRUE

\* Semaphore::acquire_owned returns only when a permit is free
CanAcquire(p) == p > 0

\* HttpClient::pre_request_delay at clock reading t: the least sleep
pre_request_delay(hs, host, t) ==
    IF hs[host] # Never
    THEN LET time_since_last == t - hs[host]
             required_delay == Jitter(host)
         IN  IF time_since_last < required_delay
             THEN required_delay - time_since_last
             ELSE 0
    ELSE FirstDelay(host)

(***************************************************************************)
(* Crawler::run_crawler_loop, setup and Phase 1 (specification SpecCrawl). *)
(***************************************************************************)
NewUrlsAnyHost(url) == Links(url)

\* the outlinks a discovery task keeps: those on the host of the page
NewUrls(url) == {o \in Links(url) : HostStr(o) = HostStr(url)}

RECURSIVE AddAll(_, _, _, _)
\* the detached task's loop of add_url over new_urls, in any order: the
\* Frontiers it can leave
AddAll(f, urls, scope, t) ==
    IF urls = {} THEN {f}
    ELSE UNION {AddAll(add_url(f, u, scope, FALSE, t), urls \ {u}, scope, t) :
                u \in urls}

\* Crawler::new and Crawler::run: load_state finds no snapshot, so the run
\* starts on a clone of Frontier::new
InitCrawl ==
    /\ InitFrontier
    /\ pc = "setup"
    /\ permits = global_concurrency
    /\ handles = <<>>
    /\ joining = 0
    /\ tasks = <<>>
    /\ adders = {}
    /\ discovered = [u \in AllUrls |-> 0]
    /\ empty_checks = 0
    /\ wake = 0
    /\ host_states = [h \in Hosts |-> Never]
    /\ InitExportIdle
    /\ InitCallsIdle
    /\ InitCmdIdle
    /\ InitUnitsIdle

SeedAsSitemap(f, root_url, scopes, t) ==
    IF is_empty(f) /\ Len(scopes) > 0
    THEN add_url(f, ParseUrl(StripWildcard(root_url)), scopes[1], TRUE, t)
    ELSE f

\* the end of setup: the base URL of the pattern is added, against the
\* first scope, when the Frontier is empty and a scope exists
seed_base_url(f, root_url, scopes, t) ==
    IF is_empty(f) /\ Len(scopes) > 0
    THEN add_url(f, ParseUrl(StripWildcard(root_url)), scopes[1], FALSE, t)
    ELSE f

\* setup: sitemap discovery and staging leave this Frontier alone
\* (process_staged_urls works on Storage::get_frontier's); then the base
\* URL is seeded
Setup ==
    /\ pc = "setup"
    /\ frontier' = seed_base_url(frontier, RootPattern, ActiveScopes, now)
    /\ pc' = "acquire"
    /\ UNCHANGED <<now, lastCall, popped, lastPopAt, internal, blob, saved,
                   loaded, permits, handles, joining, tasks, adders,
                   discovered, empty_checks, wake, host_states,
                   exportVars, callVars,
                   cmdVars, unitVars>>

\* setup returns an error (discover_sitemaps or parse_and_stage_sitemap
\* fails): the run ends before Phase 1
SetupFail ==
    /\ pc = "setup"
    /\ pc' = "error"
    /\ UNCHANGED <<frontierVars, permits, handles, joining, tasks, adders,
                   discovered, empty_checks, wake, host_states,
                   exportVars, callVars,
                   cmdVars, unitVars>>

\* the main loop takes a permit
Acquire ==
    /\ pc = "acquire"
    /\ CanAcquire(permits)
    /\ permits' = permits - 1
    /\ pc' = "pop"
    /\ UNCHANGED <<frontierVars, handles, joining, tasks, adders, discovered,
                   empty_checks, wake, host_states,
                   exportVars, callVars,
                   cmdVars, unitVars>>

\* the main loop locks the Frontier and calls get_next_url; on a URL it
\* spawns the discovery task, on none it gives the permit back and joins the
\* last handle, or counts an empty check and sleeps, or breaks
MainPop ==
    /\ pc = "pop"
    /\ \E o \in get_next_url(frontier, now) :
        /\ frontier' = o.frontier
        /\ IF o.result # None
           THEN /\ empty_checks' = 0
                /\ tasks' = Append(tasks, [url |-> o.result.value,
                                           st |-> "spawned", ready_at |-> 0])
                /\ handles' = Append(handles, Len(tasks) + 1)
                /\ popped' = [popped EXCEPT ![o.result.value] = @ + 1]
                /\ lastPopAt' =
                       [lastPopAt EXCEPT ![HostStr(o.result.value)] = now]
                /\ pc' = "acquire"
                /\ UNCHANGED <<permits, joining, wake>>
           ELSE /\ permits' = permits + 1
                /\ UNCHANGED <<tasks, popped, lastPopAt>>
                /\ IF handles # <<>>
                   THEN /\ joining' = handles[Len(handles)]
                        /\ handles' = SubSeq(handles, 1, Len(handles) - 1)
                        /\ pc' = "join"
                        /\ UNCHANGED <<empty_checks, wake>>
                   ELSE /\ empty_checks' = empty_checks + 1
                        /\ IF empty_checks + 1 < 3
                           THEN pc' = "sleep" /\ wake' = now + SleepTicks
                           ELSE pc' = "drain" /\ wake' = wake
                        /\ UNCHANGED <<handles, joining>>
    /\ UNCHANGED <<now, lastCall, internal, blob, saved, loaded, adders,
                   discovered, host_states,
                   exportVars, callVars,
                   cmdVars, unitVars>>

JoinReturnsAtOnce(task) == TRUE

\* JoinHandle::await returns once the task has finished
JoinReturns(task) == task.st = "done"

\* handle.await returns: the joined task has finished
Join ==
    /\ pc = "join"
    /\ JoinReturns(tasks[joining])
    /\ joining' = 0
    /\ pc' = "acquire"
    /\ UNCHANGED <<frontierVars, permits, handles, tasks, adders, discovered,
                   empty_checks, wake, host_states,
                   exportVars, callVars,
                   cmdVars, unitVars>>

\* the 100 ms sleep of the main loop ends
Wake ==
    /\ pc = "sleep"
    /\ now >= wake
    /\ pc' = "acquire"
    /\ UNCHANGED <<frontierVars, permits, handles, joining, tasks, adders,
                   discovered, empty_checks, wake, host_states,
                   exportVars, callVars,
                   cmdVars, unitVars>>

\* after the loop: every handle left is awaited, then Phase 2 starts with a
\* fresh export_semaphore
Drain ==
    /\ pc = "drain"
    /\ \A i \in 1..Len(handles) : JoinReturns(tasks[handles[i]])
    /\ handles' = <<>>
    /\ export_permits' = global_concurrency
    /\ pc' = "phase2"
    /\ UNCHANGED <<frontierVars, permits, joining, tasks, adders, discovered,
                   empty_checks, wake, host_states, run, export_tasks,
                   export_file, pages, callVars,
                   cmdVars, unitVars>>

\* Metrics::inc_requests: requests_total.fetch_add(1)
inc_requests(n) == n + 1

\* a discovery task begins: it counts its request and starts
\* get_with_retry, where pre_request_delay fixes its sleep
TaskStart(i) ==
    /\ tasks[i].st = "spawned"
    /\ tasks' = [tasks EXCEPT
                    ![i].st = "waiting",
                    ![i].ready_at =
                        now + pre_request_delay(host_states,
                                                HostStr(tasks[i].url), now)]
    /\ requests_total' = inc_requests(requests_total)
    /\ UNCHANGED <<frontierVars, pc, permits, handles, joining, adders,
                   discovered, empty_checks, wake, host_states,
                   exportVars, callVars,
                   active_scopes, stdout, crawler, unitVars>>

\* get_with_retry returns: post_request_update stamps the host; a 2xx
\* response is parsed, anything else ends the task, which frees its permit
TaskFetch(i) ==
    /\ tasks[i].st = "waiting"
    /\ now >= tasks[i].ready_at
    /\ host_states' = [host_states EXCEPT ![HostStr(tasks[i].url)] = now]
    /\ \E r \in FetchResults :
           IF r.tag = "Ok" /\ is_success(r.status)
           THEN /\ tasks' = [tasks EXCEPT ![i].st = "fetched",
                                           ![i].ready_at = 0]
                /\ UNCHANGED permits
           ELSE /\ tasks' = [tasks EXCEPT ![i].st = "done",
                                           ![i].ready_at = 0]
                /\ permits' = permits + 1
    /\ UNCHANGED <<frontierVars, pc, handles, joining, adders, discovered,
                   empty_checks, wake,
                   exportVars, callVars,
                   cmdVars, unitVars>>

\* the task appends its URL and its same-host outlinks to discovered_urls,
\* spawns the detached task that will add the outlinks to the Frontier, and
\* frees its permit
TaskRecord(i) ==
    /\ tasks[i].st = "fetched"
    /\ discovered' =
           [u \in AllUrls |->
               discovered[u]
               + (IF u = tasks[i].url THEN 1 ELSE 0)
               + (IF u \in NewUrls(tasks[i].url) THEN 1 ELSE 0)]
    /\ adders' = IF NewUrls(tasks[i].url) # {} /\ Len(ActiveScopes) > 0
                 THEN adders \cup {i}
                 ELSE adders
    /\ permits' = permits + 1
    /\ tasks' = [tasks EXCEPT ![i].st = "done"]
    /\ UNCHANGED <<frontierVars, pc, handles, joining, empty_checks, wake,
                   host_states,
                   exportVars, callVars,
                   cmdVars, unitVars>>

\* the detached task locks the Frontier and adds the outlinks
AdderRun(i) ==
    /\ i \in adders
    /\ frontier' \in AddAll(frontier, NewUrls(tasks[i].url), ActiveScopes[1],
                            now)
    /\ adders' = adders \ {i}
    /\ UNCHANGED <<now, lastCall, popped, lastPopAt, internal, blob, saved,
                   loaded, pc, permits, handles, joining, tasks, discovered,
                   empty_checks, wake, host_states,
                   exportVars, callVars,
                   cmdVars, unitVars>>

(***************************************************************************)
(* Crawler::run_crawler_loop, Phase 2, and a second crawl command.         *)
(***************************************************************************)
\* unique_urls: discovered_urls collected into a HashSet
unique_urls == {u \in AllUrls : discovered[u] > 0}

\* the export record of a Page: ExportPage::from, of which url and text_hash
\* matter
ExportRecord(page) == [url |-> page.url, text_hash |-> page.text_hash]

\* the Page an export task creates for url from the content it parsed
PageOf(store, url) ==
    Page_create(store, url, Some(text_hash(Content(url))),
                Some(sim_hash(Content(url))))

\* the for loop over unique_urls takes a permit and spawns the export task
\* of a URL (a HashSet: in no particular order)
ExportDispatch(u) ==
    /\ pc = "phase2"
    /\ u \in unique_urls
    /\ export_tasks[u].st = "none"
    /\ CanAcquire(export_permits)
    /\ export_permits' = export_permits - 1
    /\ export_tasks' = [export_tasks EXCEPT ![u].st = "spawned"]
    /\ UNCHANGED <<frontierVars, crawlVars, run, export_file, pages, callVars,
                   cmdVars, unitVars>>

\* an export task starts get_with_retry: pre_request_delay fixes its sleep
ExportStart(u) ==
    /\ export_tasks[u].st = "spawned"
    /\ export_tasks' =
           [export_tasks EXCEPT
               ![u].st = "waiting",
               ![u].ready_at =
                   now + pre_request_delay(host_states, HostStr(u), now)]
    /\ requests_total' = inc_requests(requests_total)
    /\ UNCHANGED <<frontierVars, crawlVars, run, export_permits, export_file,
                   pages, callVars,
                   active_scopes, stdout, crawler, unitVars>>

\* get_with_retry returns: post_request_update stamps the host; a 2xx
\* response is parsed, anything else ends the task, which frees its permit
ExportFetch(u) ==
    /\ export_tasks[u].st = "waiting"
    /\ now >= export_tasks[u].ready_at
    /\ host_states' = [host_states EXCEPT ![HostStr(u)] = now]
    /\ \E r \in FetchResults :
           IF r.tag = "Ok" /\ is_success(r.status)
           THEN /\ export_tasks' =
                       [export_tasks EXCEPT ![u].st = "parsed",
                                            ![u].ready_at = 0,
                                            ![u].status = r.status]
                /\ UNCHANGED export_permits
           ELSE /\ export_tasks' =
                       [export_tasks EXCEPT ![u].st = "done",
                                            ![u].ready_at = 0,
                                            ![u].status = r.status]
                /\ export_permits' = export_permits + 1
    /\ UNCHANGED <<frontierVars, pc, permits, handles, joining, tasks, adders,
                   discovered, empty_checks, wake, run, export_file, pages,
                   callVars,
                   cmdVars, unitVars>>

\* the keyword gate, Page::create and Deduplicator::is_duplicate: a page that
\* does not match, or is found a duplicate, ends the task
ExportGate(u) ==
    /\ export_tasks[u].st = "parsed"
    /\ IF ~is_match(keyword_matcher(NlpConfig), Content(u))
       THEN /\ export_tasks' = [export_tasks EXCEPT ![u].st = "done"]
            /\ export_permits' = export_permits + 1
            /\ UNCHANGED pages
       ELSE /\ pages' = PageOf(pages, u).store
            /\ IF is_duplicate(pages', PageOf(pages, u).page)
               THEN /\ export_tasks' = [export_tasks EXCEPT ![u].st = "done"]
                    /\ export_permits' = export_permits + 1
               ELSE /\ export_tasks' =
                           [export_tasks EXCEPT ![u].st = "passed"]
                    /\ UNCHANGED export_permits
    /\ UNCHANGED <<frontierVars, crawlVars, run, export_file, callVars,
                   cmdVars, unitVars>>

\* export_enhanced appends the record of the page, or fails and is ignored;
\* then the PDF is rendered (best effort) and the permit is freed
ExportWrite(u) ==
    /\ export_tasks[u].st = "passed"
    /\ \E ok \in BOOLEAN :
           /\ export_file' =
                  IF ok
                  THEN export_file
                           (+) SetToBag({ExportRecord(PageOf(pages, u).page)})
                  ELSE export_file
           /\ export_tasks' = [export_tasks EXCEPT ![u].st = "done",
                                                   ![u].wrote = ok]
    /\ export_permits' = export_permits + 1
    /\ UNCHANGED <<frontierVars, crawlVars, run, pages, callVars,
                   cmdVars, unitVars>>

\* every unique URL has its task and every export handle has been awaited:
\* run_crawler_loop returns Ok
ExportJoin ==
    /\ pc = "phase2"
    /\ \A u \in unique_urls : export_tasks[u].st = "done"
    /\ pc' = "done"
    /\ UNCHANGED <<frontierVars, permits, handles, joining, tasks, adders,
                   discovered, empty_checks, wake, host_states, exportVars,
                   callVars,
                   cmdVars, unitVars>>

\* commands.rs:19
NoScopesMessage == "No active scopes found. Please add a scope first."

CrawlerNewAlways(scopes, file) == EmptyBag

\* the export file once the crawl command is past its check of the scopes:
\* Crawler::new, whose JsonlExporter::new creates or truncates the file, is
\* reached only with a scope
crawl_export_file(scopes, file) ==
    IF scopes = <<>> THEN file ELSE EmptyBag

\* the remove-scope command, between two crawl commands: the scope is
\* deleted from the store
RemoveScope ==
    /\ pc = "done"
    /\ active_scopes # <<>>
    /\ active_scopes' = SubSeq(active_scopes, 1, Len(active_scopes) - 1)
    /\ UNCHANGED <<frontierVars, crawlVars, exportVars, callVars, stdout,
                   requests_total, crawler, unitVars>>

\* the crawl command on a store without an active scope: it prints the
\* message and returns Ok(()) before Crawler::new
CrawlNoScopes ==
    /\ pc = "done"
    /\ active_scopes = <<>>
    /\ stdout' = Append(stdout, NoScopesMessage)
    /\ export_file' = crawl_export_file(active_scopes, export_file)
    /\ pc' = "exit"
    /\ UNCHANGED <<frontierVars, permits, handles, joining, tasks, adders,
                   discovered, empty_checks, wake, host_states, run,
                   export_permits, export_tasks, pages, callVars,
                   active_scopes, requests_total, crawler, unitVars>>

\* the crawl command is given a second time, on the same store and seed: a
\* new process, so Crawler::new builds everything afresh (load_state finds
\* no snapshot, JsonlExporter::new truncates the export file) and its clock
\* readings start anew; the store keeps its rows
Rerun ==
    /\ pc = "done"
    /\ run = 1
    /\ active_scopes # <<>>
    /\ run' = 2
    /\ frontier' = NewFrontier
    /\ now' = 0
    /\ lastCall' = NoCall
    /\ popped' = [u \in AllUrls |-> 0]
    /\ lastPopAt' = [h \in Hosts |-> Never]
    /\ internal' = {}
    /\ saved' = None
    /\ loaded' = None
    /\ pc' = "setup"
    /\ permits' = global_concurrency
    /\ handles' = <<>>
    /\ joining' = 0
    /\ tasks' = <<>>
    /\ adders' = {}
    /\ discovered' = [u \in AllUrls |-> 0]
    /\ empty_checks' = 0
    /\ wake' = 0
    /\ host_states' = [h \in Hosts |-> Never]
    /\ export_permits' = 0
    /\ export_tasks' = [u \in AllUrls |-> NoExportTask]
    /\ export_file' = crawl_export_file(active_scopes, export_file)
    /\ requests_total' = 0
    /\ UNCHANGED <<blob, pages, callVars,
                   active_scopes, stdout, crawler, unitVars>>

\* the crawl command is cancelled during a run. The program installs no
\* signal handler and passes no cancellation token to run_crawler_loop, so
\* the one cancellation it knows is the end of its process: the runtime is
\* torn down, every spawned task that has not returned is dropped where it
\* stands and the memory of the run is gone. What stays is on disk: the
\* export file and the rows of the store. The tasks that were cut off keep
\* their place in the model, in state "aborted", and discovered_urls its
\* content, as a record of what the run had done and of what it lost.
Interrupt ==
    /\ pc \in {"acquire", "pop", "join", "sleep", "drain", "phase2"}
    /\ pc' = "killed"
    /\ tasks' = [i \in 1..Len(tasks) |->
                     IF tasks[i].st # "done" \/ i \in adders
                     THEN [tasks[i] EXCEPT !.st = "aborted", !.ready_at = 0]
                     ELSE tasks[i]]
    /\ export_tasks' =
           [u \in AllUrls |->
               IF export_tasks[u].st \notin {"none", "done"}
               THEN [NoExportTask EXCEPT !.st = "aborted"]
               ELSE export_tasks[u]]
    /\ adders' = {}
    /\ frontier' = NewFrontier
    /\ now' = 0
    /\ lastCall' = NoCall
    /\ popped' = [u \in AllUrls |-> 0]
    /\ lastPopAt' = [h \in Hosts |-> Never]
    /\ internal' = {}
    /\ permits' = 0
    /\ handles' = <<>>
    /\ joining' = 0
    /\ empty_checks' = 0
    /\ wake' = 0
    /\ host_states' = [h \in Hosts |-> Never]
    /\ export_permits' = 0
    /\ requests_total' = 0
    /\ UNCHANGED <<blob, saved, loaded, discovered, run, export_file, pages,
                   callVars,
                   active_scopes, stdout, crawler, unitVars>>

\* the monotonic clock advances during a run
CrawlTick ==
    /\ now < MaxCrawlTime
    /\ now' = now + 1
    /\ UNCHANGED <<frontier, lastCall, popped, lastPopAt, internal, blob, saved,
                   loaded, crawlVars,
                   exportVars, callVars,
                   cmdVars, unitVars>>

NextCrawl ==
    \/ Setup
    \/ SetupFail
    \/ Acquire
    \/ MainPop
    \/ Join
    \/ Wake
    \/ Drain
    \/ \E i \in 1..Len(tasks) : TaskStart(i)
    \/ \E i \in 1..Len(tasks) : TaskFetch(i)
    \/ \E i \in 1..Len(tasks) : TaskRecord(i)
    \/ \E i \in adders : AdderRun(i)
    \/ \E u \in AllUrls : ExportDispatch(u)
    \/ \E u \in AllUrls : ExportStart(u)
    \/ \E u \in AllUrls : ExportFetch(u)
    \/ \E u \in AllUrls : ExportGate(u)
    \/ \E u \in AllUrls : ExportWrite(u)
    \/ ExportJoin
    \/ Rerun
    \/ RemoveScope
    \/ CrawlNoScopes
    \/ Interrupt
    \/ CrawlTick

SpecCrawl == InitCrawl /\ [][NextCrawl]_vars

(***************************************************************************)
(* HttpClient::get_with_retry and Deduplicator::is_duplicate driven by     *)
(* calls, on a store that may hold Page rows (specification SpecCalls).    *)
(***************************************************************************)
\* the statuses a server of the model answers with
Statuses == {200, 304, 404, 503}

\* response_result: what one request.send() yields, a response of some
\* status or a transport error
SendResults == {OkResponse(st) : st \in Statuses} \cup {ErrResponse}

\* the error response.error_for_status() makes of a 5xx response
StatusError(status) == [tag |-> "Err", status |-> status]

\* the value one attempt (the closure given to Retry::spawn) ends with
AttemptResult(response_result) ==
    IF response_result.tag = "Ok" /\ is_server_error(response_result.status)
    THEN StatusError(response_result.status)
    ELSE response_result

\* ExponentialBackoff::from_millis(10).map(jitter).take(3): the delays before
\* the retries, in ms before jitter scales each into [0, delay)
retry_strategy == <<10, 100, 1000>>

RetriesLeftOneMore(used) == used <= Len(retry_strategy)

\* Retry: after a failed attempt the strategy is asked for the next delay;
\* used is the number of delays taken so far
RetriesLeft(used) == used < Len(retry_strategy)

\* the URL get_with_retry is called with
CallUrl == UrlHx

\* the validators a stored Page may carry: Page.etag, Page.last_modified
Etags == {None, Some("v1")}
LastModifieds == {None, Some("d1")}

\* the Page rows a store may hold when a command starts
StoreRows ==
    {PageOf({}, u).page : u \in {UrlHRoot, UrlH20}}
        \cup {[PageOf({}, CallUrl).page EXCEPT !.etag = e, !.last_modified = m] :
                  e \in Etags, m \in LastModifieds}

\* the stores of the model: no Page row, or one
Stores == {{}} \cup {{p} : p \in StoreRows}

\* the outcome of a lookup that the pool or the query failed
LookupError == [tag |-> "Err"]

\* Storage::get_page_by_url: Ok(Some(page)) for the row of the URL, Ok(None)
\* without one, Err when the connection or the query fails (query_ok false)
get_page_by_url(store, url, query_ok) ==
    IF ~query_ok
    THEN LookupError
    ELSE IF \E p \in store : p.url = url
         THEN [tag |-> "Ok", value |-> Some(CHOOSE p \in store : p.url = url)]
         ELSE [tag |-> "Ok", value |-> None]

ConditionalHeadersEtagFirst(lookup) ==
    IF lookup.tag = "Ok" /\ lookup.value # None
    THEN [if_none_match |-> lookup.value.value.etag,
          if_modified_since |->
              IF lookup.value.value.etag = None
              THEN lookup.value.value.last_modified
              ELSE None]
    ELSE [if_none_match |-> None, if_modified_since |-> None]

\* get_with_retry, in the closure: the conditional headers an attempt's
\* request is built with, from the lookup of the Page stored for the URL
conditional_headers(lookup) ==
    IF lookup.tag = "Ok" /\ lookup.value # None
    THEN [if_none_match |-> lookup.value.value.etag,
          if_modified_since |-> lookup.value.value.last_modified]
    ELSE [if_none_match |-> None, if_modified_since |-> None]

InitCalls ==
    /\ InitFrontier
    /\ InitCrawlIdle
    /\ run = 1
    /\ export_permits = 0
    /\ export_tasks = [u \in AllUrls |-> NoExportTask]
    /\ export_file = EmptyBag
    /\ pages \in Stores
    /\ InitCallsIdle
    /\ InitCmdIdle
    /\ InitUnitsIdle

\* get_with_retry is called: Retry::spawn starts the first attempt
HttpCall ==
    /\ http_call.st \in {"idle", "checked"}
    /\ http_call' = [NoHttpCall EXCEPT !.st = "attempt"]
    /\ UNCHANGED <<frontierVars, crawlVars, exportVars, dup_call,
                   cmdVars, unitVars>>

\* an attempt begins: pre_request_delay fixes its sleep
HttpDelay ==
    /\ http_call.st = "attempt"
    /\ http_call' =
           [http_call EXCEPT
               !.st = "sleeping",
               !.ready_at =
                   now + pre_request_delay(host_states, HostStr(CallUrl), now)]
    /\ UNCHANGED <<frontierVars, crawlVars, exportVars, dup_call,
                   cmdVars, unitVars>>

\* the attempt sends its request and gets response_result;
\* post_request_update stamps the host; Retry returns an Ok at once, and an
\* Err once the strategy has no delay left, else it retries after the delay
HttpSend ==
    /\ http_call.st = "sleeping"
    /\ now >= http_call.ready_at
    /\ host_states' = [host_states EXCEPT ![HostStr(CallUrl)] = now]
    /\ \E response_result \in SendResults, query_ok \in BOOLEAN :
         LET res == AttemptResult(response_result)
             retry == res.tag = "Err"
                          /\ RetriesLeft(Len(http_call.outcomes))
             lookup == get_page_by_url(pages, CallUrl, query_ok)
         IN  http_call' =
                 [http_call EXCEPT
                     !.st = IF retry THEN "attempt" ELSE "returned",
                     !.ready_at = 0,
                     !.outcomes = Append(@, response_result),
                     !.request =
                         Some([lookup |-> lookup,
                               headers |-> conditional_headers(lookup)]),
                     !.result = IF retry THEN None ELSE Some(res)]
    /\ UNCHANGED <<frontierVars, pc, permits, handles, joining, tasks, adders,
                   discovered, empty_checks, wake, exportVars, dup_call,
                   cmdVars, unitVars>>

\* the orchestrator's match on the result: only a 2xx response is parsed
HttpCallerCheck ==
    /\ http_call.st = "returned"
    /\ http_call' =
           [http_call EXCEPT
               !.st = "checked",
               !.kept = /\ http_call.result.value.tag = "Ok"
                        /\ is_success(http_call.result.value.status)]
    /\ UNCHANGED <<frontierVars, crawlVars, exportVars, dup_call,
                   cmdVars, unitVars>>

\* a call of is_duplicate, for the Page created for u
IsDuplicate(u) ==
    /\ dup_call' = [called |-> TRUE,
                    page |-> PageOf(pages, u).page,
                    result |-> is_duplicate(pages, PageOf(pages, u).page)]
    /\ UNCHANGED <<frontierVars, crawlVars, exportVars, http_call,
                   cmdVars, unitVars>>

\* the monotonic clock advances
CallsTick ==
    /\ now < MaxCrawlTime
    /\ now' = now + 1
    /\ UNCHANGED <<frontier, lastCall, popped, lastPopAt, internal, blob, saved,
                   loaded, crawlVars, exportVars, callVars,
                   cmdVars, unitVars>>

NextCalls ==
    \/ HttpCall
    \/ HttpDelay
    \/ HttpSend
    \/ HttpCallerCheck
    \/ \E u \in AllUrls : IsDuplicate(u)
    \/ CallsTick

SpecCalls == InitCalls /\ [][NextCalls]_vars

(***************************************************************************)
(* JsonlExporter::export_enhanced called by several workers at once, step  *)
(* by step (specification SpecSink).  The file is the bytes flushed to it, *)
(* the BufWriter's buffer the bytes written and not yet flushed.           *)
(***************************************************************************)
\* the workers that share the exporter, each exporting one record
Writers == 1..MaxWriters

\* serde_json::to_string(page) for the record of worker w, in pieces
Json(w) == <<"{", ToString(w), "}">>

\* b"\n"
LF == "\n"

\* JsonlExporter::new: the file created empty, the mutex free
NewSink ==
    [mutex |-> 0,
     writers |-> [w \in Writers |-> [st |-> "idle", off |-> 0]],
     buf |-> <<>>,
     disk |-> <<>>]

InitSink ==
    /\ InitFrontier
    /\ InitCrawlIdle
    /\ InitExportIdle
    /\ InitCallsIdle
    /\ InitCmdIdle
    /\ staged = NoStaged
    /\ fn_call = NoFnCall
    /\ sink = NewSink
    /\ sync = NoSync

MutexFreeAlways(mutex) == TRUE

\* Mutex::lock returns only when no guard of the mutex is alive
MutexFree(mutex) == mutex = 0

\* worker w calls export_enhanced
SinkCall(w) ==
    /\ sink.writers[w].st = "idle"
    /\ sink' = [sink EXCEPT !.writers[w].st = "locking"]
    /\ UNCHANGED <<frontierVars, crawlVars, exportVars, callVars, cmdVars,
                   staged, fn_call, sync>>

\* self.writer.lock().await returns the guard; the record is serialized
SinkLock(w) ==
    /\ sink.writers[w].st = "locking"
    /\ MutexFree(sink.mutex)
    /\ sink' = [sink EXCEPT !.mutex = w, !.writers[w].st = "json"]
    /\ UNCHANGED <<frontierVars, crawlVars, exportVars, callVars, cmdVars,
                   staged, fn_call, sync>>

\* writer.write_all(json.as_bytes()).await, one piece at a time: the piece
\* goes to the buffer
SinkWriteJson(w) ==
    /\ sink.writers[w].st = "json"
    /\ LET off == sink.writers[w].off + 1
       IN  sink' = [sink EXCEPT
                       !.buf = Append(@, Json(w)[off]),
                       !.writers[w].off = off,
                       !.writers[w].st =
                           IF off = Len(Json(w)) THEN "newline" ELSE "json"]
    /\ UNCHANGED <<frontierVars, crawlVars, exportVars, callVars, cmdVars,
                   staged, fn_call, sync>>

\* the BufWriter, its buffer full during a write, passes the buffer on to
\* the file
SinkSpill(w) ==
    /\ sink.writers[w].st \in {"json", "newline"}
    /\ sink.buf # <<>>
    /\ sink' = [sink EXCEPT !.disk = @ \o sink.buf, !.buf = <<>>]
    /\ UNCHANGED <<frontierVars, crawlVars, exportVars, callVars, cmdVars,
                   staged, fn_call, sync>>

\* writer.write_all(b"\n").await
SinkWriteLF(w) ==
    /\ sink.writers[w].st = "newline"
    /\ sink' = [sink EXCEPT !.buf = Append(@, LF),
                            !.writers[w].st = "flush"]
    /\ UNCHANGED <<frontierVars, crawlVars, exportVars, callVars, cmdVars,
                   staged, fn_call, sync>>

\* writer.flush().await
SinkFlush(w) ==
    /\ sink.writers[w].st = "flush"
    /\ sink' = [sink EXCEPT !.disk = @ \o sink.buf, !.buf = <<>>,
                            !.writers[w].st = "flushed"]
    /\ UNCHANGED <<frontierVars, crawlVars, exportVars, callVars, cmdVars,
                   staged, fn_call, sync>>

\* export_enhanced returns Ok(()): the guard is dropped
SinkReturn(w) ==
    /\ sink.writers[w].st = "flushed"
    /\ sink' = [sink EXCEPT
                    !.mutex = IF @ = w THEN 0 ELSE @,
                    !.writers[w].st = "returned"]
    /\ UNCHANGED <<frontierVars, crawlVars, exportVars, callVars, cmdVars,
                   staged, fn_call, sync>>

NextSink ==
    \/ \E w \in Writers : SinkCall(w)
    \/ \E w \in Writers : SinkLock(w)
    \/ \E w \in Writers : SinkWriteJson(w)
    \/ \E w \in Writers : SinkSpill(w)
    \/ \E w \in Writers : SinkWriteLF(w)
    \/ \E w \in Writers : SinkFlush(w)
    \/ \E w \in Writers : SinkReturn(w)

SpecSink == InitSink /\ [][NextSink]_vars

(***************************************************************************)
(* canonicalize_url, the keyword matcher and the staging of sitemap URLs,  *)
(* each applied to an input drawn when the behaviour starts (specification *)
(* SpecUnits).  A URL is the Url value of the url crate: its scheme, host, *)
(* path, query and fragment.  A query is a tuple of characters, in which a *)
(* percent-escape ("%26", "%3D") is one element.                           *)
(***************************************************************************)
\* the byte of a character of a query, for the order of str
Byte(c) ==
    CASE c = "&" -> 38
      [] c = "1" -> 49
      [] c = "2" -> 50
      [] c = "=" -> 61
      [] c = "a" -> 97
      [] c = "b" -> 98
      [] OTHER -> 0

\* percent_decode of one element of a query
PercentDecode(c) ==
    CASE c = "%26" -> "&"
      [] c = "%3D" -> "="
      [] OTHER -> c

\* the decoded text of a piece of a query
Decoded(s) == [i \in 1..Len(s) |-> PercentDecode(s[i])]

\* str::find(c): the first place of c in s, 0 when there is none
IndexOf(s, c) ==
    IF \E i \in 1..Len(s) : s[i] = c
    THEN CHOOSE i \in 1..Len(s) : s[i] = c /\ \A j \in 1..(i - 1) : s[j] # c
    ELSE 0

RECURSIVE Split(_, _)
\* the pieces of s between the separators sep
Split(s, sep) ==
    IF IndexOf(s, sep) = 0
    THEN <<s>>
    ELSE <<SubSeq(s, 1, IndexOf(s, sep) - 1)>>
             \o Split(SubSeq(s, IndexOf(s, sep) + 1, Len(s)), sep)

\* form_urlencoded::parse on one piece: the name runs up to the first "=",
\* the value is what follows it; both are percent-decoded
PairOf(piece) ==
    LET eq == IndexOf(piece, "=")
    IN  IF eq = 0
        THEN <<Decoded(piece), <<>>>>
        ELSE <<Decoded(SubSeq(piece, 1, eq - 1)),
               Decoded(SubSeq(piece, eq + 1, Len(piece)))>>

\* Url::query_pairs().into_owned(): the pieces between "&", empty pieces
\* skipped, each as its decoded (name, value)
query_pairs(query) ==
    IF query = None
    THEN <<>>
    ELSE LET pieces == SelectSeq(Split(query.value, "&"),
                                 LAMBDA piece : piece # <<>>)
         IN  [i \in 1..Len(pieces) |-> PairOf(pieces[i])]

RECURSIVE StrLess(_, _)
\* a < b for str: byte by byte, a proper prefix first
StrLess(a, b) ==
    IF b = <<>> THEN FALSE
    ELSE IF a = <<>> THEN TRUE
    ELSE IF Byte(Head(a)) # Byte(Head(b)) THEN Byte(Head(a)) < Byte(Head(b))
    ELSE StrLess(Tail(a), Tail(b))

\* p <= q for (String, String): by the name, then by the value
PairLe(p, q) ==
    \/ StrLess(p[1], q[1])
    \/ p[1] = q[1] /\ (p[2] = q[2] \/ StrLess(p[2], q[2]))

RECURSIVE InsertPair(_, _)
\* pair put into the sorted pairs, after the pairs not greater than it
InsertPair(pair, pairs) ==
    IF pairs = <<>> THEN <<pair>>
    ELSE IF PairLe(Head(pairs), pair)
         THEN <<Head(pairs)>> \o InsertPair(pair, Tail(pairs))
         ELSE <<pair>> \o pairs

SortPairsNot(pairs) == pairs

RECURSIVE SortPairs(_)
\* pairs.sort()
SortPairs(pairs) ==
    IF pairs = <<>> THEN <<>>
    ELSE InsertPair(pairs[Len(pairs)],
                    SortPairs(SubSeq(pairs, 1, Len(pairs) - 1)))

RECURSIVE JoinPairs(_)
\* the pairs as format!("{}={}", k, v), joined with "&"
JoinPairs(pairs) ==
    IF pairs = <<>> THEN <<>>
    ELSE (Head(pairs)[1] \o <<"=">> \o Head(pairs)[2])
             \o (IF Tail(pairs) = <<>> THEN <<>>
                 ELSE <<"&">> \o JoinPairs(Tail(pairs)))

\* the schemes of the model; Url::parse lowercases the host of a special one
HttpScheme == <<"h", "t", "t", "p">>
FooScheme == <<"f", "o", "o">>
IsSpecial(scheme) == scheme = HttpScheme

\* Url::parse of scheme://host/path?query#fragment
Url_parse(str) ==
    LET colon == IndexOf(str, ":")
        scheme == Lower(SubSeq(str, 1, colon - 1))
        rest == SubSeq(str, colon + 3, Len(str))
        hash == IndexOf(rest, "#")
        nofrag == IF hash = 0 THEN rest ELSE SubSeq(rest, 1, hash - 1)
        qm == IndexOf(nofrag, "?")
        noquery == IF qm = 0 THEN nofrag ELSE SubSeq(nofrag, 1, qm - 1)
        slash == IndexOf(noquery, "/")
        host == IF slash = 0 THEN noquery ELSE SubSeq(noquery, 1, slash - 1)
    IN  [scheme |-> scheme,
         host |-> IF IsSpecial(scheme) THEN Lower(host) ELSE host,
         path |-> IF slash = 0 THEN <<"/">>
                  ELSE SubSeq(noquery, slash, Len(noquery)),
         query |-> IF qm = 0 THEN None
                   ELSE Some(SubSeq(nofrag, qm + 1, Len(nofrag))),
         fragment |-> IF hash = 0 THEN None
                      ELSE Some(SubSeq(rest, hash + 1, Len(rest)))]

\* deduplication::canonicalize_url
canonicalize_url(url) ==
    LET new_query == JoinPairs(SortPairs(query_pairs(url.query)))
    IN  [url EXCEPT
            !.host = Lower(url.host),
            !.fragment = None,
            !.query = IF new_query # <<>> THEN Some(new_query) ELSE None]

\* the characters and escapes of the queries of the model
QueryChars == {"a", "b", "1", "&", "=", "%26", "%3D"}

\* the query strings of the model
Queries == UNION {[1..n -> QueryChars] : n \in 0..MaxQueryLen}

\* HTTP://Example.COM/a?b=2&a=1#frag
ExampleUrl ==
    <<"H", "T", "T", "P", ":", "/", "/", "E", "x", "a", "m", "p", "l", "e",
      ".", "C", "O", "M", "/", "a", "?", "b", "=", "2", "&", "a", "=", "1",
      "#", "f", "r", "a", "g">>

\* the URLs handed to canonicalize_url: http://h/a and foo://H/a with every
\* query of the model, with and without a fragment, and the example
CanonInputs ==
    {[scheme |-> sh[1], host |-> sh[2], path |-> <<"/", "a">>,
      query |-> q, fragment |-> f] :
        sh \in {<<HttpScheme, <<"h">>>>, <<FooScheme, <<"H">>>>},
        q \in {None} \cup {Some(x) : x \in Queries},
        f \in {None, Some(<<"f">>)}}
        \cup {Url_parse(ExampleUrl)}

\* the configurations of the matcher: enabled with "crawler", disabled with
\* the same list, enabled with no keyword
NlpConfigs ==
    {NlpConfig,
     [NlpConfig EXCEPT !.enabled = FALSE],
     [NlpConfig EXCEPT !.keywords = {}]}

\* the texts handed to the matcher: the contents of the pages, and no text
Texts == {Content(u) : u \in AllUrls} \cup {<<>>}

\* Storage::get_frontier: a placeholder in the source, a new Frontier
get_frontier(store) == NewFrontier

\* Storage::add_staged_url: a placeholder in the source, nothing is stored
add_staged_url(rows, url_entry) == rows

\* Storage::get_pending_staged_urls: a placeholder in the source, Ok(vec![])
get_pending_staged_urls(rows) == <<>>

\* Storage::update_staged_url_status: a placeholder in the source
update_staged_url_status(rows, url, status) == rows

RECURSIVE MarkProcessed(_, _)
\* the loop of process_staged_urls over staged_urls: the priority is
\* computed and dropped, the URL is not added to the Frontier, the row is
\* handed to update_staged_url_status
MarkProcessed(rows, staged_urls) ==
    IF staged_urls = <<>> THEN rows
    ELSE MarkProcessed(
             update_staged_url_status(rows, Head(staged_urls).url,
                                      "processed"),
             Tail(staged_urls))

\* SitemapFetcher::process_staged_urls: the rows of the store afterwards, and
\* the Frontier it worked on, which is Storage::get_frontier's and is handed
\* to the placeholder Storage::save_frontier
process_staged_urls(rows) ==
    [rows |-> MarkProcessed(rows, get_pending_staged_urls(rows)),
     frontier |-> get_frontier(rows)]

\* what the reader finds in a sitemap, one after the other: a <url> element
\* with the <loc> of a page, or markup that read_event rejects (such as an
\* end tag that does not match its start tag)
UrlEntry(u) == [kind |-> "url", loc |-> u]
Malformed == [kind |-> "malformed"]
SitemapEvents == {UrlEntry(UrlHx), UrlEntry(UrlH20), Malformed}

RECURSIVE SeqsUpTo(_, _)
SeqsUpTo(S, n) ==
    IF n = 0 THEN {<<>>}
    ELSE LET shorter == SeqsUpTo(S, n - 1)
         IN  shorter \cup {Append(q, x) : q \in shorter, x \in S}

\* the sitemaps of the model
Sitemaps == SeqsUpTo(SitemapEvents, MaxSitemap)

RECURSIVE parse_and_stage_sitemap(_, _)
\* SitemapFetcher::parse_and_stage_sitemap, from the first read_event on:
\* the end of a <url> element hands its pending StagedUrl to add_staged_url,
\* Eof ends the loop with Ok(()), an Err of read_event is returned at once
parse_and_stage_sitemap(st, events) ==
    IF events = <<>> THEN [tag |-> "Ok", staged |-> st]
    ELSE IF Head(events).kind = "malformed" THEN [tag |-> "Err", staged |-> st]
    ELSE LET staged_url == [url |-> Head(events).loc, status |-> "pending"]
         IN  parse_and_stage_sitemap(
                 [rows |-> add_staged_url(st.rows, staged_url),
                  handed |-> st.handed \cup {staged_url}],
                 Tail(events))

\* the loop of run_crawler_loop over the sitemaps applies ? to the result:
\* where the run stands once parse_and_stage_sitemap has returned
AfterSitemap(result) ==
    IF result.tag = "Err" THEN "error" ELSE "process_staged_urls"

\* the calls of the model, each with its input
FnInputs ==
    {[op |-> "input", fn |-> "canonicalize_url", arg |-> u, url |-> u,
      once |-> None, calls |-> 0] : u \in CanonInputs}
        \cup {[op |-> "input", fn |-> fn, config |-> c, text |-> t] :
                 fn \in {"is_match", "score_outlink"},
                 c \in NlpConfigs, t \in Texts}
        \cup {[op |-> "input", fn |-> "process_staged_urls"]}
        \cup {[op |-> "input", fn |-> "parse_and_stage_sitemap",
                sitemap |-> sm] : sm \in Sitemaps}

InitUnits ==
    /\ InitFrontier
    /\ InitCrawlIdle
    /\ InitExportIdle
    /\ InitCallsIdle
    /\ InitCmdIdle
    /\ staged = NoStaged
    /\ fn_call \in FnInputs
    /\ sink = NoSink
    /\ sync = NoSync

\* canonicalize_url(&mut url), a first and then a second time
Canonicalize ==
    /\ fn_call.fn = "canonicalize_url"
    /\ fn_call.calls < 2
    /\ fn_call' = [fn_call EXCEPT
                      !.op = "returned",
                      !.url = canonicalize_url(@),
                      !.once = IF fn_call.calls = 0
                               THEN Some(canonicalize_url(fn_call.url))
                               ELSE @,
                      !.calls = @ + 1]
    /\ UNCHANGED <<frontierVars, crawlVars, exportVars, callVars, cmdVars,
                   staged, sink, sync>>

\* NlpProcessor::new(config).is_match(text)
IsMatchCall ==
    /\ fn_call.fn = "is_match"
    /\ fn_call.op = "input"
    /\ fn_call' =
           [op |-> "returned", fn |-> "is_match",
            config |-> fn_call.config, text |-> fn_call.text,
            result |-> is_match(keyword_matcher(fn_call.config),
                                fn_call.text)]
    /\ UNCHANGED <<frontierVars, crawlVars, exportVars, callVars, cmdVars,
                   staged, sink, sync>>

\* NlpProcessor::new(config).score_outlink(text)
ScoreOutlinkCall ==
    /\ fn_call.fn = "score_outlink"
    /\ fn_call.op = "input"
    /\ fn_call' =
           [op |-> "returned", fn |-> "score_outlink",
            config |-> fn_call.config, text |-> fn_call.text,
            result |-> score_outlink(keyword_matcher(fn_call.config),
                                     fn_call.text)]
    /\ UNCHANGED <<frontierVars, crawlVars, exportVars, callVars, cmdVars,
                   staged, sink, sync>>

\* parse_and_stage_sitemap finds <loc>u</loc> in a sitemap and hands the
\* pending StagedUrl of u to Storage::add_staged_url
AddStagedUrl(u) ==
    /\ fn_call.fn = "process_staged_urls"
    /\ fn_call.op = "input"
    /\ LET staged_url == [url |-> u, status |-> "pending"]
       IN  staged' = [rows |-> add_staged_url(staged.rows, staged_url),
                      handed |-> staged.handed \cup {staged_url}]
    /\ UNCHANGED <<frontierVars, crawlVars, exportVars, callVars, cmdVars,
                   fn_call, sink, sync>>

\* setup calls process_staged_urls; the Frontier of the crawl is not among
\* what it works on
ProcessStagedUrls ==
    /\ fn_call.fn = "process_staged_urls"
    /\ fn_call.op = "input"
    /\ staged' = [staged EXCEPT !.rows = process_staged_urls(@).rows]
    /\ fn_call' = [fn_call EXCEPT !.op = "returned"]
    /\ UNCHANGED <<frontierVars, crawlVars, exportVars, callVars, cmdVars,
                   sink, sync>>

\* setup calls parse_and_stage_sitemap on a sitemap it has discovered
ParseAndStageSitemap ==
    /\ fn_call.fn = "parse_and_stage_sitemap"
    /\ fn_call.op = "input"
    /\ LET result == parse_and_stage_sitemap(staged, fn_call.sitemap)
       IN  /\ staged' = result.staged
           /\ fn_call' = [op |-> "returned", fn |-> "parse_and_stage_sitemap",
                          sitemap |-> fn_call.sitemap, result |-> result.tag,
                          run |-> AfterSitemap(result)]
    /\ UNCHANGED <<frontierVars, crawlVars, exportVars, callVars, cmdVars,
                   sink, sync>>

NextUnits ==
    \/ Canonicalize
    \/ IsMatchCall
    \/ ScoreOutlinkCall
    \/ \E u \in Urls : AddStagedUrl(u)
    \/ ProcessStagedUrls
    \/ ParseAndStageSitemap

SpecUnits == InitUnits /\ [][NextUnits]_vars

(***************************************************************************)
(* The waiting of Crawler::run_crawler_loop: the main loop, the discovery  *)
(* tasks, the detached admission tasks and the export tasks, with the two  *)
(* semaphores and the three mutexes as steps of their own (specification   *)
(* SpecSync, and SpecSyncFair with a fair runtime). Time is left out: a    *)
(* sleep ends, a fetch returns, and get_next_url may hold any queued URL   *)
(* back for its politeness delay.                                          *)
(***************************************************************************)
\* run_crawler_loop after its setup: the base URL is in the Frontier, no
\* task is spawned, every permit and lock is free
NewSync ==
    [pc |-> "acquire",
     permits |-> global_concurrency,
     frontier_lock |-> "free",
     discovered_lock |-> "free",
     writer_lock |-> "free",
     queued |-> {UrlHRoot},
     seen_urls |-> {UrlHRoot},
     pops |-> [u \in AllUrls |-> 0],
     task |-> [u \in AllUrls |-> "none"],
     adder |-> [u \in AllUrls |-> "none"],
     handles |-> <<>>,
     joining |-> {},
     empty_checks |-> 0,
     discovered |-> {},
     export_permits |-> 0,
     export_task |-> [u \in AllUrls |-> "none"],
     dispatched |-> [u \in AllUrls |-> 0],
     written |-> {}]

InitSync ==
    /\ InitFrontier
    /\ InitCrawlIdle
    /\ InitExportIdle
    /\ InitCallsIdle
    /\ InitCmdIdle
    /\ staged = NoStaged
    /\ fn_call = NoFnCall
    /\ sink = NoSink
    /\ sync = NewSync

\* a step of the run changes the run only
SyncOnly ==
    UNCHANGED <<frontierVars, crawlVars, exportVars, callVars, cmdVars,
                staged, fn_call, sink>>

PermitKept(p) == p

\* drop(permit): the permit goes back to its semaphore
PermitDropped(p) == p + 1

\* tokio Mutex::lock().await returns only when no guard is alive
MutexLock(lock) == lock = "free"

\* the main loop awaits a permit of discovery_semaphore; it holds no lock
SyncAcquire ==
    /\ sync.pc = "acquire"
    /\ CanAcquire(sync.permits)
    /\ sync' = [sync EXCEPT !.permits = @ - 1, !.pc = "lock"]
    /\ SyncOnly

\* the main loop, with its permit, awaits frontier.lock()
SyncLock ==
    /\ sync.pc = "lock"
    /\ MutexLock(sync.frontier_lock)
    /\ sync' = [sync EXCEPT !.frontier_lock = "main", !.pc = "pop"]
    /\ SyncOnly

\* under the lock get_next_url returns a queued URL, or none (nothing is
\* queued, or every host is in its delay). On a URL the guard is dropped and
\* the discovery task spawned with the permit; on none the guard and the
\* permit are dropped and the loop joins its last handle, or counts an empty
\* check and sleeps, or breaks
SyncPop ==
    /\ sync.pc = "pop"
    /\ \/ \E u \in sync.queued :
              sync' = [sync EXCEPT
                          !.frontier_lock = "free",
                          !.queued = @ \ {u},
                          !.pops[u] = @ + 1,
                          !.task[u] = "fetch",
                          !.handles = Append(@, u),
                          !.empty_checks = 0,
                          !.pc = "acquire"]
       \/ /\ sync.handles # <<>>
          /\ sync' = [sync EXCEPT
                         !.frontier_lock = "free",
                         !.permits = PermitDropped(@),
                         !.joining = {sync.handles[Len(sync.handles)]},
                         !.handles = SubSeq(@, 1, Len(@) - 1),
                         !.pc = "join"]
       \/ /\ sync.handles = <<>>
          /\ sync' = [sync EXCEPT
                         !.frontier_lock = "free",
                         !.permits = PermitDropped(@),
                         !.empty_checks = @ + 1,
                         !.pc = IF sync.empty_checks + 1 < 3
                                THEN "sleep" ELSE "drain"]
    /\ SyncOnly

\* handle.await returns: the joined discovery task has returned
SyncJoin ==
    /\ sync.pc = "join"
    /\ \A u \in sync.joining : JoinReturns([st |-> sync.task[u]])
    /\ sync' = [sync EXCEPT !.joining = {}, !.pc = "acquire"]
    /\ SyncOnly

\* the sleep of 100 ms ends
SyncWake ==
    /\ sync.pc = "sleep"
    /\ sync' = [sync EXCEPT !.pc = "acquire"]
    /\ SyncOnly

\* after the loop the handles that are left are awaited; Phase 2 begins with
\* its own semaphore
SyncDrain ==
    /\ sync.pc = "drain"
    /\ \A k \in 1..Len(sync.handles) :
           JoinReturns([st |-> sync.task[sync.handles[k]]])
    /\ sync' = [sync EXCEPT !.handles = <<>>,
                            !.export_permits = global_concurrency,
                            !.pc = "export"]
    /\ SyncOnly

\* get_with_retry returns in the discovery task of u: with a page, or with
\* a status or an error on which the task returns and its permit is dropped
SyncFetch(u) ==
    /\ sync.task[u] = "fetch"
    /\ \/ sync' = [sync EXCEPT !.task[u] = "parsed"]
       \/ sync' = [sync EXCEPT !.task[u] = "done",
                               !.permits = PermitDropped(@)]
    /\ SyncOnly

\* the discovery task of u, with its permit, awaits discovered_urls.lock()
SyncRecordLock(u) ==
    /\ sync.task[u] = "parsed"
    /\ MutexLock(sync.discovered_lock)
    /\ sync' = [sync EXCEPT !.task[u] = "recording",
                            !.discovered_lock = "task"]
    /\ SyncOnly

\* under the lock the task pushes u and its same-host outlinks; then the
\* guard is dropped, the admission task spawned if there are outlinks, the
\* permit dropped, and the task returns
SyncRecord(u) ==
    /\ sync.task[u] = "recording"
    /\ sync' = [sync EXCEPT
                   !.discovered = @ \cup {u} \cup NewUrls(u),
                   !.discovered_lock = "free",
                   !.adder[u] = IF NewUrls(u) # {} /\ Len(ActiveScopes) > 0
                                THEN "spawned" ELSE @,
                   !.permits = PermitDropped(@),
                   !.task[u] = "done"]
    /\ SyncOnly

\* the admission task of u awaits frontier.lock(); it holds nothing
SyncAdderLock(u) ==
    /\ sync.adder[u] = "spawned"
    /\ MutexLock(sync.frontier_lock)
    /\ sync' = [sync EXCEPT !.adder[u] = "adding", !.frontier_lock = "adder"]
    /\ SyncOnly

\* under the lock add_url is called on each outlink, in the order of the
\* Vec: an unseen URL is admitted while the Frontier has capacity; then the
\* guard is dropped and the task returns
SyncAdd(u) ==
    /\ sync.adder[u] = "adding"
    /\ LET fresh == NewUrls(u) \ sync.seen_urls
           room == MAX_QUEUE_SIZE - Cardinality(sync.queued)
       IN  \E admitted \in SUBSET fresh :
               /\ Cardinality(admitted) =
                      IF Cardinality(fresh) <= room THEN Cardinality(fresh)
                      ELSE IF room > 0 THEN room ELSE 0
               /\ sync' = [sync EXCEPT
                              !.queued = @ \cup admitted,
                              !.seen_urls = @ \cup admitted,
                              !.frontier_lock = "free",
                              !.adder[u] = "done"]
    /\ SyncOnly

\* the for loop of Phase 2 over unique_urls awaits a permit of
\* export_semaphore and spawns the export task of the next URL
SyncExportDispatch(u) ==
    /\ sync.pc = "export"
    /\ u \in sync.discovered
    /\ sync.export_task[u] = "none"
    /\ CanAcquire(sync.export_permits)
    /\ sync' = [sync EXCEPT !.export_permits = @ - 1,
                            !.export_task[u] = "fetch",
                            !.dispatched[u] = @ + 1]
    /\ SyncOnly

\* every URL of unique_urls has its task: the loop is left
SyncExportAll ==
    /\ sync.pc = "export"
    /\ \A u \in sync.discovered : sync.export_task[u] # "none"
    /\ sync' = [sync EXCEPT !.pc = "export_join"]
    /\ SyncOnly

\* get_with_retry returns in the export task of u
SyncExportFetch(u) ==
    /\ sync.export_task[u] = "fetch"
    /\ \/ sync' = [sync EXCEPT !.export_task[u] = "parsed"]
       \/ sync' = [sync EXCEPT !.export_task[u] = "done",
                               !.export_permits = PermitDropped(@)]
    /\ SyncOnly

\* the keyword gate, Page::create and is_duplicate: the task goes on to
\* export_enhanced, or drops its permit and returns
SyncExportGate(u) ==
    /\ sync.export_task[u] = "parsed"
    /\ \/ sync' = [sync EXCEPT !.export_task[u] = "export"]
       \/ sync' = [sync EXCEPT !.export_task[u] = "done",
                               !.export_permits = PermitDropped(@)]
    /\ SyncOnly

\* export_enhanced: the task, with its permit, awaits writer.lock()
SyncWriterLock(u) ==
    /\ sync.export_task[u] = "export"
    /\ MutexLock(sync.writer_lock)
    /\ sync' = [sync EXCEPT !.export_task[u] = "writing",
                            !.writer_lock = "task"]
    /\ SyncOnly

\* under the lock the record is written and flushed; the guard is dropped,
\* then (after the PDF export) the permit, and the task returns
SyncWrite(u) ==
    /\ sync.export_task[u] = "writing"
    /\ sync' = [sync EXCEPT !.export_task[u] = "done",
                            !.written = @ \cup {u},
                            !.writer_lock = "free",
                            !.export_permits = PermitDropped(@)]
    /\ SyncOnly

\* the export handles are awaited one after the other; run_crawler_loop
\* returns Ok(())
SyncExportJoin ==
    /\ sync.pc = "export_join"
    /\ \A u \in AllUrls :
           sync.export_task[u] = "none"
               \/ JoinReturns([st |-> sync.export_task[u]])
    /\ sync' = [sync EXCEPT !.pc = "returned"]
    /\ SyncOnly

NextSync ==
    \/ SyncAcquire
    \/ SyncLock
    \/ SyncPop
    \/ SyncJoin
    \/ SyncWake
    \/ SyncDrain
    \/ \E u \in AllUrls : SyncFetch(u)
    \/ \E u \in AllUrls : SyncRecordLock(u)
    \/ \E u \in AllUrls : SyncRecord(u)
    \/ \E u \in AllUrls : SyncAdderLock(u)
    \/ \E u \in AllUrls : SyncAdd(u)
    \/ \E u \in AllUrls : SyncExportDispatch(u)
    \/ SyncExportAll
    \/ \E u \in AllUrls : SyncExportFetch(u)
    \/ \E u \in AllUrls : SyncExportGate(u)
    \/ \E u \in AllUrls : SyncWriterLock(u)
    \/ \E u \in AllUrls : SyncWrite(u)
    \/ SyncExportJoin

SpecSync == InitSync /\ [][NextSync]_vars

\* the runtime keeps polling: it never leaves every ready task unpolled
SpecSyncFair == SpecSync /\ WF_vars(NextSync)

(***************************************************************************)
(* Vocabulary of the claims about the Frontier.                            *)
(***************************************************************************)
\* u is returned by the get_next_url call this step makes
PoppedNow(u) == popped'[u] = popped[u] + 1

\* the entries queued on host h (none when h has no queue)
QueueOf(f, h) ==
    IF h \in DOMAIN f.host_queues THEN f.host_queues[h].queue ELSE {}

\* u is queued, on some host, with priority p
QueuedWith(f, u, p) ==
    \E h \in DOMAIN f.host_queues :
        [url |-> u, priority |-> p] \in f.host_queues[h].queue

\* u is queued
Queued(f, u) == \E p \in 0..9 : QueuedWith(f, u, p)

RECURSIVE SumQueues(_, _)
\* the number of queued entries over the hosts hs
SumQueues(f, hs) ==
    IF hs = {} THEN 0
    ELSE LET h == CHOOSE x \in hs : TRUE
         IN  Cardinality(f.host_queues[h].queue) + SumQueues(f, hs \ {h})

\* no host has a URL queued and its politeness delay behind it
NoHostReady(f, t) ==
    \A h \in DOMAIN f.host_queues :
        f.host_queues[h].queue = {} \/ f.host_queues[h].next_allowed_at > t

\* C1: a URL add_url has admitted stays in seen_urls for ever, a later
\* add_url of it changes neither host_queues nor seen_urls nor size (also
\* once it has been popped), and get_next_url returns it at most once.
C1_AdmittedOnce ==
    /\ [](\A u \in Urls : popped[u] <= 1)
    /\ [][/\ \A u \in frontier.seen_urls : u \in frontier'.seen_urls
          /\ (lastCall'.op = "add_url" /\ lastCall'.url \in frontier.seen_urls)
                 => frontier' = frontier]_vars

\* C1 witness: add_url is called again for a URL that was admitted and has
\* since been popped, and the URL is not back in any queue.
C1_Witness ==
    /\ lastCall.op = "add_url"
    /\ popped[lastCall.url] = 1
    /\ lastCall.url \in frontier.seen_urls
    /\ ~Queued(frontier, lastCall.url)

\* C2: two consecutive pops of one host are at least 1 s apart on the
\* monotonic clock.
C2_PolitenessGap ==
    [][\A u \in Urls :
          (PoppedNow(u) /\ lastPopAt[HostStr(u)] # Never)
              => now - lastPopAt[HostStr(u)] >= TicksPerSec]_vars

\* C2 witness: host h has been popped twice.
C2_Witness == popped[UrlHx] = 1 /\ popped[UrlH20] = 1

\* the scenario of C3: exactly two URLs of host h and one of host other have
\* been admitted, all of them found internal
C3_Scenario ==
    /\ frontier.seen_urls = {UrlHx, UrlH20, UrlOtherLong}
    /\ internal = {UrlHx, UrlH20, UrlOtherLong}

\* C3 as stated: in the scenario, the pops made within any 2 s window hold at
\* most one URL of host h, i.e. no pop of h is less than 2 s after the
\* previous pop of h.
C3_Original ==
    [][\A u \in {UrlHx, UrlH20} :
          (C3_Scenario /\ PoppedNow(u) /\ lastPopAt[HostH] # Never)
              => now - lastPopAt[HostH] >= 2 * TicksPerSec]_vars

\* C3 as amended: in the scenario, the pops made within any window shorter
\* than 1 s hold at most one URL of host h: whenever both URLs of h have been
\* popped, their pops are at least 1 s apart.
C3_Amended ==
    [][(C3_Scenario /\ lastPopAt[HostH] # Never
            /\ (PoppedNow(UrlHx) \/ PoppedNow(UrlH20)))
          => ~(now < lastPopAt[HostH] + TicksPerSec)]_vars

\* C3 witness: in the scenario both URLs of h and the URL of other have been
\* popped.
C3_Witness ==
    /\ C3_Scenario
    /\ popped[UrlHx] = 1 /\ popped[UrlH20] = 1 /\ popped[UrlOtherLong] = 1

\* C4: size is the number of URLs queued over all hosts, so is_empty holds
\* exactly when every host queue is empty.
C4_SizeIsSum ==
    /\ frontier.size = SumQueues(frontier, DOMAIN frontier.host_queues)
    /\ is_empty(frontier)
           <=> \A h \in DOMAIN frontier.host_queues :
                   frontier.host_queues[h].queue = {}

\* C4 witness: URLs are queued on both hosts after a pop.
C4_Witness ==
    /\ \E u \in Urls : popped[u] = 1
    /\ \A h \in Hosts : QueueOf(frontier, h) # {}

\* C5: size never exceeds MAX_QUEUE_SIZE, and an add_url made while size
\* equals MAX_QUEUE_SIZE queues nothing and leaves the Frontier as it was.
C5_Capacity ==
    /\ [](frontier.size <= MAX_QUEUE_SIZE)
    /\ [][(lastCall'.op = "add_url" /\ frontier.size = MAX_QUEUE_SIZE)
             => frontier' = frontier]_vars

\* C5 witness: add_url was called for a URL never seen while the Frontier
\* was full, and the URL was dropped.
C5_Witness ==
    /\ lastCall.op = "add_url"
    /\ frontier.size = MAX_QUEUE_SIZE
    /\ lastCall.url \notin frontier.seen_urls

\* C6: a URL get_next_url returns was queued on a host whose next_allowed_at
\* is not later than now, and its priority is the greatest among the URLs
\* queued on such hosts; hosts inside their delay do not count.
C6_PopsBestEligible ==
    [][\A u \in Urls :
          PoppedNow(u) =>
              /\ lastCall'.result = Some(u)
              /\ frontier.host_queues[HostStr(u)].next_allowed_at <= now
              /\ [url |-> u, priority |-> lastCall'.priority]
                     \in frontier.host_queues[HostStr(u)].queue
              /\ \A h \in DOMAIN frontier.host_queues :
                     frontier.host_queues[h].next_allowed_at <= now
                         => \A e \in frontier.host_queues[h].queue :
                                e.priority <= lastCall'.priority]_vars

\* C6 witness: get_next_url has returned a URL of lower priority than one
\* still queued on a host that is inside its delay.
C6_Witness ==
    /\ lastCall.op = "get_next_url"
    /\ lastCall.result # None
    /\ \E h \in DOMAIN frontier.host_queues :
           /\ h # HostStr(lastCall.result.value)
           /\ frontier.host_queues[h].next_allowed_at > now
           /\ \E e \in frontier.host_queues[h].queue :
                  e.priority > lastCall.priority

\* C7: get_next_url returns none when no URL is queued and when every host
\* with a URL queued is inside its delay, and then changes nothing of the
\* Frontier; when some host with a URL queued has its delay behind it, it
\* returns a URL.
C7_NoneIffNoHostReady ==
    [][(lastCall'.op = "get_next_url" /\ now' = now) =>
          IF NoHostReady(frontier, now)
          THEN lastCall'.result = None /\ frontier' = frontier
          ELSE lastCall'.result # None]_vars

\* C7 witness: get_next_url has returned none although a URL is queued.
C7_Witness ==
    /\ lastCall.op = "get_next_url"
    /\ lastCall.result = None
    /\ frontier.size > 0

\* the priority C8 states for url admitted under scope
C8_Expected(url, scope, is_sitemap) ==
    (IF Contains(scope.pattern, url.host) THEN 5 ELSE 0)
    + (IF is_sitemap THEN 3 ELSE 0)
    + (IF Len(url.path) < 20 THEN 1 ELSE 0)

\* C8: add_url queues a newly admitted URL with priority 5 (pattern contains
\* the host) + 3 (is_sitemap) + 1 (path shorter than 20); under https://h/*
\* that is 6 for https://h/x and 0 for https://other/y/very/long/path/segment,
\* and of these two https://h/x is popped first when both hosts are eligible.
C8_Priority ==
    /\ [](\A url \in Urls \ frontier.seen_urls, scope \in Scopes,
            is_sitemap \in BOOLEAN :
              has_capacity(frontier) =>
                  QueuedWith(add_url(frontier, url, scope, is_sitemap, now),
                             url, C8_Expected(url, scope, is_sitemap)))
    /\ [](QueuedWith(add_url(frontier, UrlHx, ScopeH, FALSE, now), UrlHx, 6)
            \/ ~has_capacity(frontier) \/ UrlHx \in frontier.seen_urls)
    /\ [](QueuedWith(add_url(frontier, UrlOtherLong, ScopeH, FALSE, now),
                     UrlOtherLong, 0)
            \/ ~has_capacity(frontier) \/ UrlOtherLong \in frontier.seen_urls)
    /\ [][(/\ QueueOf(frontier, HostH) = {[url |-> UrlHx, priority |-> 6]}
           /\ QueueOf(frontier, HostOther) =
                  {[url |-> UrlOtherLong, priority |-> 0]}
           /\ ~NoHostReady(frontier, now)
           /\ \A h \in Hosts : frontier.host_queues[h].next_allowed_at <= now
           /\ lastCall'.op = "get_next_url" /\ now' = now)
              => PoppedNow(UrlHx)]_vars

\* C8 witness: https://h/x, queued with 6, has been popped while
\* https://other/y/very/long/path/segment, queued with 0 on an eligible
\* host, waits.
C8_Witness ==
    /\ lastCall.op = "get_next_url"
    /\ lastCall.result = Some(UrlHx)
    /\ lastCall.priority = 6
    /\ QueueOf(frontier, HostOther) = {[url |-> UrlOtherLong, priority |-> 0]}
    /\ frontier.host_queues[HostOther].next_allowed_at <= now
    /\ QueueOf(frontier, HostH) = {}

\* C9: load_state after save_state yields a Frontier, with the seen_urls,
\* the size and per host the (URL, priority) entries of the saved one, and
\* every host eligible at once.
C9_RoundTrip ==
    lastCall.op = "load_state" =>
        /\ loaded # None
        /\ loaded.value.seen_urls = saved.value.seen_urls
        /\ loaded.value.size = saved.value.size
        /\ DOMAIN loaded.value.host_queues = DOMAIN saved.value.host_queues
        /\ \A h \in DOMAIN saved.value.host_queues :
               /\ loaded.value.host_queues[h].queue
                      = saved.value.host_queues[h].queue
               /\ loaded.value.host_queues[h].next_allowed_at <= now

(***************************************************************************)
(* Claims about the crawl loop.                                            *)
(***************************************************************************)
\* C10: when Phase 1 exits (the main loop breaks; no handle is left to
\* join then), the Frontier is empty, every discovery task has finished, and
\* every URL admitted to the Frontier has been popped.
C10_Phase1Drains ==
    [][(pc = "pop" /\ pc' = "drain") =>
          /\ is_empty(frontier')
          /\ \A i \in 1..Len(tasks') : tasks'[i].st = "done"
          /\ \A u \in frontier'.seen_urls : popped'[u] >= 1]_vars

(***************************************************************************)
(* Claims about the crawl's phases, the export and the calls.              *)
(***************************************************************************)
\* the discovery tasks dispatched and not yet finished
DiscoveryInFlight ==
    {i \in 1..Len(tasks) : tasks[i].st \notin {"done", "aborted"}}

\* the export tasks dispatched and not yet finished
ExportInFlight ==
    {u \in AllUrls : export_tasks[u].st \notin {"none", "done", "aborted"}}

\* C11: at every moment of a run at most global_concurrency discovery tasks
\* and at most global_concurrency export tasks are dispatched and not yet
\* finished (a task finishes with the statement that frees its permit).
C11_BoundedWorkers ==
    /\ Cardinality(DiscoveryInFlight) <= global_concurrency
    /\ Cardinality(ExportInFlight) <= global_concurrency

\* C11 witness: as many export tasks as there are permits are in flight and
\* the dispatch loop waits with a further URL.
C11_Witness ==
    /\ pc = "phase2"
    /\ Cardinality(ExportInFlight) = global_concurrency
    /\ \E u \in unique_urls : export_tasks[u].st = "none"

\* C12: no export task is dispatched and no export record is written before
\* every discovery task of the run has finished.
C12_ExportAfterDiscovery ==
    (ExportInFlight # {} \/ export_file # EmptyBag
        \/ \E u \in AllUrls : export_tasks[u].st = "done")
        => DiscoveryInFlight = {}

\* C12 witness: a run with two discovery tasks has written an export record
\* while another export task is in flight.
C12_Witness ==
    /\ Len(tasks) >= 2
    /\ export_file # EmptyBag
    /\ ExportInFlight # {}

\* C13: a discovery task appends to discovered, besides its own URL, and
\* offers to the Frontier only outlinks on the host of the URL it fetched;
\* so every URL admitted to the Frontier and every URL in discovered has the
\* host of the seed URL.
C13_SameHostOnly ==
    /\ [](\A u \in frontier.seen_urls \cup unique_urls :
              HostStr(u) = HostStr(UrlHRoot))
    /\ [][/\ \A u \in AllUrls :
                discovered'[u] > discovered[u] =>
                    \E i \in 1..Len(tasks) :
                        /\ tasks[i].st = "fetched" /\ tasks'[i].st = "done"
                        /\ HostStr(u) = HostStr(tasks[i].url)
          /\ (frontier'.seen_urls \ frontier.seen_urls # {}) =>
                 \/ pc = "setup"
                 \/ \E i \in adders \ adders' :
                        \A u \in frontier'.seen_urls \ frontier.seen_urls :
                            /\ u \in Links(tasks[i].url)
                            /\ HostStr(u) = HostStr(tasks[i].url)]_vars

\* C13 witness: the page of the seed, which also links to another host, has
\* been fetched, and its same-host outlinks are in discovered and admitted.
C13_Witness ==
    /\ UrlOtherLong \in Links(UrlHRoot)
    /\ discovered[UrlHx] > 0 /\ discovered[UrlH20] > 0
    /\ {UrlHx, UrlH20} \subseteq frontier.seen_urls

\* the keyword "crawler" occurs in the main content of u, case ignored
HasKeyword(u) ==
    Contains(Lower(Content(u)), <<"c", "r", "a", "w", "l", "e", "r">>)

\* the export records written for URL u
RecordsOf(u) == {r \in BagToSet(export_file) : r.url = u}

\* C14: every export record written belongs to an export task whose fetch
\* returned a 2xx status, whose main content passed is_match and whose Page
\* is_duplicate found no duplicate; no two records of a run share their url.
C14_RecordsFiltered ==
    \A r \in BagToSet(export_file) :
        /\ r.url \in unique_urls
        /\ export_tasks[r.url].st = "done"
        /\ export_tasks[r.url].status \in 200..299
        /\ HasKeyword(r.url)
        /\ ~is_duplicate(pages, PageOf(pages, r.url).page)
        /\ CopiesIn(r, export_file) = 1
        /\ RecordsOf(r.url) = {r}

\* C14 witness: two records have been written, and the task of a page
\* without the keyword and fetched with 2xx has ended.
C14_Witness ==
    /\ BagCardinality(export_file) = 2
    /\ export_tasks[UrlH20].st = "done"
    /\ export_tasks[UrlH20].status = 200

C16_RecordHasPageRow ==
    \A r \in BagToSet(export_file) :
        Cardinality({p \in pages :
                        p.url = r.url /\ p.text_hash = r.text_hash}) = 1

\* C17: a second crawl of the same seed on the same store, the pages
\* unchanged, writes no export record.
C17_RerunWritesNothing ==
    run = 2 => export_file = EmptyBag

\* C18: is_duplicate(page) returns true exactly when the store holds a Page
\* of the same text_hash or of a matching sim_hash (matched exactly, as
\* without a near-duplicate index), and false otherwise; it leaves the store
\* as it was.
C18_IsDuplicateIffStored ==
    /\ [](dup_call.called =>
            (dup_call.result <=>
                 \E p \in pages :
                     \/ p.text_hash = dup_call.page.text_hash
                     \/ p.sim_hash = dup_call.page.sim_hash))
    /\ [][dup_call' # dup_call => pages' = pages]_vars

\* response_result is a transport error or a 5xx response
Retryable(response_result) ==
    response_result.tag = "Err" \/ response_result.status \in 500..599

\* C19 as stated: one call of get_with_retry sends at most 3 requests.
C19_Original == Len(http_call.outcomes) <= 3

\* C19 as amended: one call of get_with_retry sends at most 4 requests (the
\* first attempt and at most 3 retries), whatever transport errors and 5xx
\* responses it receives; when every attempt fails it returns, after the
\* fourth, the error of the last attempt.
C19_Amended ==
    /\ Len(http_call.outcomes) <= 4
    /\ (/\ http_call.st \in {"returned", "checked"}
        /\ \A i \in 1..Len(http_call.outcomes) :
               Retryable(http_call.outcomes[i]))
          => /\ Len(http_call.outcomes) = 4
             /\ http_call.result.value.tag = "Err"
             /\ http_call.result.value.status = http_call.outcomes[4].status

\* C19 witness: a call has returned the error of its fourth attempt, a 503,
\* after a transport error among the earlier attempts.
C19_Witness ==
    /\ http_call.st = "returned"
    /\ Len(http_call.outcomes) = 4
    /\ http_call.outcomes[1] = ErrResponse
    /\ http_call.outcomes[4] = OkResponse(503)
    /\ http_call.result = Some(StatusError(503))

\* C20: an attempt is retried (while the call has retries left) exactly when
\* it ends in a transport error or a 5xx response; a response of any other
\* status ends the call at once and is returned as a success value; the
\* orchestrator keeps a returned value only when it is a 2xx response.
C20_RetryOnlyOnFailure ==
    /\ [][Len(http_call'.outcomes) = Len(http_call.outcomes) + 1 =>
            LET last == http_call'.outcomes[Len(http_call'.outcomes)]
            IN  IF Retryable(last)
                THEN /\ Len(http_call.outcomes) < 3
                            => http_call'.st = "attempt"
                     /\ http_call'.st = "returned"
                            => http_call'.result.value.tag = "Err"
                ELSE /\ http_call'.st = "returned"
                     /\ http_call'.result = Some(OkResponse(last.status))]_vars
    /\ [](http_call.st \in {"attempt", "sleeping"} =>
             \A i \in 1..Len(http_call.outcomes) :
                 Retryable(http_call.outcomes[i]))
    /\ [](http_call.st = "checked" =>
             (http_call.kept <=>
                  /\ http_call.result.value.tag = "Ok"
                  /\ http_call.result.value.status \in 200..299))

\* C20 witness: after one retry a 404 was returned as a success value and
\* the orchestrator dropped it.
C20_Witness ==
    /\ http_call.st = "checked"
    /\ Len(http_call.outcomes) = 2
    /\ http_call.result = Some(OkResponse(404))
    /\ ~http_call.kept

(***************************************************************************)
(* Claims about the conditional headers, the pacing of a host, the export  *)
(* file's lines, the seed URL, the staged URLs, the keyword matcher when   *)
(* disabled, canonicalize_url and a crawl command without a scope.         *)
(***************************************************************************)
\* the Page rows the store holds for the URL of the call
StoredFor(url) == {p \in pages : p.url = url}

\* C21: every attempt of a get_with_retry call, the retries included, sends
\* If-None-Match with the etag of the Page stored for the URL when that Page
\* has one, and If-Modified-Since with its last_modified when it has one;
\* when no Page is stored for the URL, or the lookup fails, the request
\* carries neither header.  (request is the request of the latest attempt.)
C21_ConditionalHeaders ==
    /\ http_call.request = None <=> http_call.outcomes = <<>>
    /\ http_call.request # None =>
         LET req == http_call.request.value
         IN  IF req.lookup = LookupError \/ StoredFor(CallUrl) = {}
             THEN /\ req.headers.if_none_match = None
                  /\ req.headers.if_modified_since = None
             ELSE \A p \in StoredFor(CallUrl) :
                      /\ req.headers.if_none_match = p.etag
                      /\ req.headers.if_modified_since = p.last_modified

\* the third retry of a call has sent both validators of the stored Page
C21_Witness ==
    /\ Len(http_call.outcomes) = 4
    /\ http_call.request # None
    /\ http_call.request.value.headers.if_none_match = Some("v1")
    /\ http_call.request.value.headers.if_modified_since = Some("d1")

\* a request to host h is made on this step: the get_with_retry of a
\* discovery task or of an export task on h returns
Requested(h) ==
    \/ \E i \in 1..Len(tasks) :
           /\ HostStr(tasks[i].url) = h
           /\ tasks[i].st = "waiting"
           /\ tasks'[i].st \notin {"waiting", "aborted"}
    \/ \E u \in AllUrls :
           /\ HostStr(u) = h
           /\ export_tasks[u].st = "waiting"
           /\ export_tasks'[u].st \notin {"waiting", "aborted"}

\* C22: no request goes to a host h earlier than the required spacing (twice
\* ewma_rtt[h], which the model takes as 0, plus the jitter of h, 500 ms at
\* least) after the previous request to h was recorded, and the first
\* request to h comes only after the first-request sleep of h (1 to 5 s),
\* whatever the interleaving of the get_with_retry calls on h.
C22_PacedPerHost ==
    [][\A h \in Hosts :
          Requested(h) =>
              IF host_states[h] = Never
              THEN now >= FirstDelay(h)
              ELSE now - host_states[h] >= Jitter(h)]_vars

\* the discovery tasks on host h that are inside get_with_retry
FetchingDiscovery(h) ==
    {i \in 1..Len(tasks) :
        HostStr(tasks[i].url) = h /\ tasks[i].st \in {"spawned", "waiting"}}

\* the export tasks on host h that are inside get_with_retry
FetchingExport(h) ==
    {u \in AllUrls :
        HostStr(u) = h /\ export_tasks[u].st \in {"spawned", "waiting"}}

\* C23: at every moment of a run at most one fetch task per host is in
\* flight, in Phase 1 and in Phase 2.
C23_OneFetchPerHost ==
    \A h \in Hosts :
        Cardinality(FetchingDiscovery(h)) + Cardinality(FetchingExport(h)) <= 1

\* the line of the record of worker w: its JSON object and one LF
Line(w) == Json(w) \o <<LF>>

\* bytes is a sequence of whole lines, then at most the beginning of the
\* line of a worker that is still writing its record
RECURSIVE WholeLines(_)
WholeLines(bytes) ==
    \/ bytes = <<>>
    \/ \E w \in Writers :
           /\ Len(bytes) >= Len(Line(w))
           /\ SubSeq(bytes, 1, Len(Line(w))) = Line(w)
           /\ WholeLines(SubSeq(bytes, Len(Line(w)) + 1, Len(bytes)))
    \/ \E w \in Writers :
           /\ sink.writers[w].st \in {"json", "newline", "flush"}
           /\ Len(bytes) <= Len(Line(w))
           /\ bytes = SubSeq(Line(w), 1, Len(bytes))

\* the file holds the line of worker w, whole
OnDisk(w) ==
    \E k \in 1..Len(sink.disk) :
        /\ k + Len(Line(w)) - 1 <= Len(sink.disk)
        /\ SubSeq(sink.disk, k, k + Len(Line(w)) - 1) = Line(w)
        /\ k = 1 \/ sink.disk[k - 1] = LF

SeedPatterns ==
    {PatternH,
     SubSeq(PatternH, 1, Len(PatternH) - 2) \o <<"*">>,
     SubSeq(PatternH, 1, Len(PatternH) - 2)}

\* f holds exactly the URL u, queued with priority p
HoldsExactly(f, u, p) ==
    /\ f.size = 1
    /\ f.seen_urls = {u}
    /\ QueuedWith(f, u, p)
    /\ \A h \in DOMAIN f.host_queues :
           f.host_queues[h].queue \subseteq {[url |-> u, priority |-> p]}

\* C25: at the end of setup, when the Frontier is empty after the staged
\* URLs were processed and an active scope exists, the Frontier holds
\* exactly the base URL (the pattern without its trailing "/*" or "*"),
\* admitted with is_sitemap = false and the priority computed against the
\* first active scope; a Frontier that was not empty is left as it was.
C25_SeedBaseUrl ==
    /\ [][pc = "setup" /\ pc' = "acquire" =>
             HoldsExactly(frontier', [host |-> HostH, path |-> <<"/">>],
                          C8_Expected(UrlHRoot, ActiveScopes[1], FALSE))]_vars
    /\ [](/\ \A root_url \in SeedPatterns, first \in Scopes :
               HoldsExactly(
                   seed_base_url(NewFrontier, root_url,
                                 <<first, ScopeH>>, now),
                   [host |-> HostH, path |-> <<"/">>],
                   C8_Expected(UrlHRoot, first, FALSE))
          /\ ~is_empty(frontier) =>
                 seed_base_url(frontier, RootPattern, ActiveScopes, now)
                     = frontier)

\* setup has just seeded https://h with priority 6 in an empty Frontier
C25_Witness ==
    /\ pc = "acquire"
    /\ tasks = <<>>
    /\ HoldsExactly(frontier, UrlHRoot, 6)

\* process_staged_urls has returned
StagingProcessed ==
    fn_call.fn = "process_staged_urls" /\ fn_call.op = "returned"

\* C26: process_staged_urls admits the URL of every pending StagedUrl into
\* the Frontier of the crawl and sets the row to processed: after it returns
\* no row is pending and every staged URL is in the Frontier's seen_urls.
C26_StagedAdmitted ==
    StagingProcessed =>
        /\ \A row \in staged.rows : row.status # "pending"
        /\ \A staged_url \in staged.rows \cup staged.handed :
               staged_url.url \in frontier.seen_urls

\* keyword occurs in text, the case of ASCII letters ignored
Occurs(keyword, text) == Contains(Lower(text), Lower(keyword))

\* C27: with the keyword matcher disabled, is_match returns true for every
\* text, the empty one included, so that the keyword gate of Phase 2 drops
\* no page, and score_outlink returns null for every outlink; with the
\* matcher enabled, score_outlink returns 1 when a keyword occurs in the
\* outlink and 0 when none does, never null.
C27_DisabledMatcher ==
    /\ fn_call.fn = "is_match" /\ fn_call.op = "returned"
           /\ ~fn_call.config.enabled
       => fn_call.result = TRUE
    /\ fn_call.fn = "score_outlink" /\ fn_call.op = "returned" =>
           IF ~fn_call.config.enabled
           THEN fn_call.result = None
           ELSE fn_call.result =
                    IF \E k \in fn_call.config.keywords :
                           Occurs(k, fn_call.text)
                    THEN Some(1)
                    ELSE Some(0)
    /\ \A config \in NlpConfigs, u \in AllUrls :
           ~config.enabled => is_match(keyword_matcher(config), Content(u))

\* score_outlink has returned null for an outlink that holds the keyword,
\* the matcher being disabled
C27_Witness ==
    /\ fn_call.fn = "score_outlink"
    /\ fn_call.op = "returned"
    /\ ~fn_call.config.enabled
    /\ \E k \in fn_call.config.keywords : Occurs(k, fn_call.text)
    /\ fn_call.result = None

\* C28: canonicalize_url is idempotent: applied twice it gives the URL it
\* gives applied once, also for a query whose names or values hold an
\* escaped "&" or "=", or a name without "=".
C28_Idempotent ==
    fn_call.fn = "canonicalize_url" /\ fn_call.calls = 2
        => fn_call.url = fn_call.once.value

\* q is the pairs, in lexicographic order, joined as k=v&k=v
SortedJoin(pairs, q) ==
    \E perm \in Permutations(1..Len(pairs)) :
        LET sorted == [i \in 1..Len(pairs) |-> pairs[perm[i]]]
        IN  /\ \A i \in 1..(Len(sorted) - 1) : PairLe(sorted[i], sorted[i + 1])
            /\ q = JoinPairs(sorted)

\* http://example.com/a?a=1&b=2
ExampleCanonical ==
    [scheme |-> <<"h", "t", "t", "p">>,
     host |-> <<"e", "x", "a", "m", "p", "l", "e", ".", "c", "o", "m">>,
     path |-> <<"/", "a">>,
     query |-> Some(<<"a", "=", "1", "&", "b", "=", "2">>),
     fragment |-> None]

\* C29: canonicalize_url leaves the scheme and the path as they are, makes
\* the host lower case, removes the fragment and replaces the query by its
\* (name, value) pairs in lexicographic order, joined as k=v&k=v, with no
\* query when there is no pair; HTTP://Example.COM/a?b=2&a=1#frag becomes
\* http://example.com/a?a=1&b=2.
C29_CanonicalForm ==
    fn_call.fn = "canonicalize_url" /\ fn_call.calls = 1 =>
        /\ fn_call.url.scheme = fn_call.arg.scheme
        /\ fn_call.url.path = fn_call.arg.path
        /\ fn_call.url.host = Lower(fn_call.arg.host)
        /\ fn_call.url.fragment = None
        /\ IF query_pairs(fn_call.arg.query) = <<>>
           THEN fn_call.url.query = None
           ELSE /\ fn_call.url.query # None
                /\ SortedJoin(query_pairs(fn_call.arg.query),
                              fn_call.url.query.value)
        /\ fn_call.arg = Url_parse(ExampleUrl)
               => fn_call.url = ExampleCanonical

\* the example has been canonicalized
C29_Witness ==
    /\ fn_call.fn = "canonicalize_url"
    /\ fn_call.calls = 1
    /\ fn_call.arg = Url_parse(ExampleUrl)
    /\ fn_call.arg.fragment = Some(<<"f", "r", "a", "g">>)
    /\ fn_call.url = ExampleCanonical

\* C30: when the store has no active scope, the crawl command prints the
\* "No active scopes found" message and returns success without building a
\* crawler: it sends no HTTP request, neither creates nor truncates the
\* export file and writes no export record.
C30_NoScopeNoCrawl ==
    /\ [][active_scopes = <<>> /\ pc = "done" /\ pc' # "done" =>
             /\ pc' = "exit"
             /\ stdout' = Append(stdout, NoScopesMessage)
             /\ export_file' = export_file
             /\ host_states' = host_states
             /\ tasks' = tasks
             /\ export_tasks' = export_tasks]_vars
    /\ [](pc = "exit" =>
             /\ DiscoveryInFlight = {}
             /\ ExportInFlight = {}
             /\ stdout = <<NoScopesMessage>>)
    /\ [][pc = "exit" =>
             /\ pc' = "exit"
             /\ export_file' = export_file
             /\ host_states' = host_states]_vars

\* the command has returned on a store without a scope, and the export
\* file still holds the record of an earlier crawl
C30_Witness ==
    /\ pc = "exit"
    /\ active_scopes = <<>>
    /\ stdout = <<NoScopesMessage>>
    /\ export_file # EmptyBag

(***************************************************************************)
(* Claims about cancellation, failed fetches, malformed sitemaps, the      *)
(* admission of outlinks, waiting, termination and the frontier of a run.  *)
(***************************************************************************)
\* the tasks of the run that were dropped before they had returned, or
\* before the admission step they had spawned had run
AbortedDiscovery == {i \in 1..Len(tasks) : tasks[i].st = "aborted"}
AbortedExport == {u \in AllUrls : export_tasks[u].st = "aborted"}

\* C31: once the run has been cancelled, no discovery or export task is
\* dispatched any more, and no task that was in flight at the cancellation
\* has been aborted: each has run to its end, its frontier admissions and
\* its export write included.
C31_CancelLetsTasksFinish ==
    /\ [](pc = "killed" => AbortedDiscovery = {} /\ AbortedExport = {})
    /\ [][pc = "killed" =>
             /\ Len(tasks') = Len(tasks)
             /\ \A u \in AllUrls :
                    export_tasks[u].st = "none" => export_tasks'[u].st = "none"
         ]_vars

\* the tasks of the run that have counted their request
CountedDiscovery == {i \in 1..Len(tasks) : tasks[i].st # "spawned"}
CountedExport ==
    {u \in AllUrls : export_tasks[u].st \notin {"none", "spawned"}}

\* the fetch of the export task of u has returned, and with no 2xx
\* status: a status of another class, or the error after the last retry
ExportFetchFailed(u) ==
    /\ export_tasks[u].st \notin {"none", "spawned", "waiting", "aborted"}
    /\ export_tasks[u].status \notin 200..299

\* C32: a discovery or export task whose fetch ends in a non-2xx status or
\* in an error ends there: the step adds nothing to discovered_urls, offers
\* nothing to the Frontier (directly or by an admission task), writes no
\* export record and no Page row, gives the permit of the task back and
\* leaves the main loop where it is; the task has counted its request once,
\* like every started task, and an export task that failed never writes.
C32_FailedFetch ==
    /\ [](\A u \in AllUrls :
             ExportFetchFailed(u) =>
                 /\ export_tasks[u].st = "done"
                 /\ ~export_tasks[u].wrote
                 /\ RecordsOf(u) = {})
    /\ [](pc # "killed" =>
             requests_total =
                 Cardinality(CountedDiscovery) + Cardinality(CountedExport))
    /\ [][\A i \in 1..Len(tasks) :
             tasks[i].st = "waiting" /\ tasks'[i].st = "done" =>
                 /\ discovered' = discovered
                 /\ frontier' = frontier
                 /\ adders' = adders
                 /\ export_file' = export_file
                 /\ pages' = pages
                 /\ requests_total' = requests_total
                 /\ permits' = permits + 1
                 /\ pc' = pc]_vars
    /\ [][\A u \in AllUrls :
             ~ExportFetchFailed(u) /\ ExportFetchFailed(u)' =>
                 /\ discovered' = discovered
                 /\ frontier' = frontier
                 /\ adders' = adders
                 /\ export_file' = export_file
                 /\ pages' = pages
                 /\ requests_total' = requests_total
                 /\ export_permits' = export_permits + 1
                 /\ pc' = pc]_vars

\* C32 witness: the run has come to its end although the discovery task of
\* https://h/x failed (the URL was appended once, as an outlink only), the
\* export task of https://h/x got a 404 and that of
\* https://h/aaaaaaaaaaaaaaaaaaa an error; neither wrote, and all six tasks
\* were counted.
C32_Witness ==
    /\ pc = "done"
    /\ \E i \in 1..Len(tasks) : tasks[i].url = UrlHx /\ tasks[i].st = "done"
    /\ discovered[UrlHx] = 1
    /\ export_tasks[UrlHx].status = 404
    /\ export_tasks[UrlH20].status = 0 - 1
    /\ RecordsOf(UrlHx) = {} /\ RecordsOf(UrlH20) = {}
    /\ requests_total = 6

\* the <url> entries of a sitemap that are well formed
RECURSIVE WellFormed(_)
WellFormed(events) ==
    IF events = <<>> THEN {}
    ELSE (IF Head(events).kind = "url"
          THEN {[url |-> Head(events).loc, status |-> "pending"]}
          ELSE {}) \cup WellFormed(Tail(events))

\* C33: parse_and_stage_sitemap on a sitemap with malformed XML skips what
\* is malformed and stages every well-formed entry, and the run goes on
\* (to process_staged_urls, the seeding and Phase 1) instead of ending in an
\* error.
C33_MalformedSkipped ==
    fn_call.fn = "parse_and_stage_sitemap" /\ fn_call.op = "returned" =>
        /\ fn_call.run # "error"
        /\ staged.handed = WellFormed(fn_call.sitemap)

\* the same-host outlinks of the pages whose discovery task has finished
\* and spawned an admission task that has not run yet
OutlinksNotOffered ==
    UNION {NewUrls(tasks[i].url) : i \in adders}

\* C34: when the main loop of Phase 1 decides that the Frontier is empty and
\* breaks, every admission task spawned by a finished discovery task has
\* run: no same-host outlink of a fetched page is still to be offered to
\* add_url.
C34_AdmissionsBeforeExit ==
    [][pc = "pop" /\ pc' = "drain" =>
          /\ adders' = {}
          /\ OutlinksNotOffered' = {}]_vars

\* nothing of the run is left to do: run_crawler_loop has returned and
\* every admission task has run
SyncDone ==
    /\ sync.pc = "returned"
    /\ \A u \in AllUrls : sync.adder[u] \in {"none", "done"}

\* C35: the run never deadlocks. In every reachable state of the main loop,
\* the discovery tasks, the admission tasks and the export tasks, some step
\* can be taken unless everything is done; whoever holds the Frontier lock,
\* the discovered_urls lock or the writer lock can take its next step (it
\* waits for nothing while holding the lock), so no cycle of waiting
\* exists; and the main loop holds the Frontier lock at no place where it
\* waits for a permit, a handle or its sleep.
C35_NoDeadlock ==
    /\ SyncDone \/ ENABLED NextSync
    /\ sync.frontier_lock = "main" => ENABLED SyncPop
    /\ sync.frontier_lock = "adder" => \E u \in AllUrls : ENABLED SyncAdd(u)
    /\ sync.discovered_lock = "task" =>
           \E u \in AllUrls : ENABLED SyncRecord(u)
    /\ sync.writer_lock = "task" => \E u \in AllUrls : ENABLED SyncWrite(u)
    /\ sync.pc # "pop" => sync.frontier_lock # "main"

\* C35 witness: the main loop, holding a permit, waits for the Frontier lock
\* while an admission task holds it, and a discovery task is under way.
C35_Witness ==
    /\ sync.pc = "lock"
    /\ sync.frontier_lock = "adder"
    /\ \E u \in AllUrls : sync.task[u] \in {"fetch", "parsed", "recording"}

\* C36: with a finite site and fetches that return, run_crawler_loop
\* returns under a runtime that keeps polling its ready tasks; Phase 1 pops
\* no URL twice and is left only with every discovery task finished;
\* Phase 2 dispatches one task for each discovered URL and for no other,
\* and the function returns only when all of them have finished.
C36_Terminates ==
    /\ <>(sync.pc = "returned")
    /\ [](\A u \in AllUrls : sync.pops[u] <= 1 /\ sync.dispatched[u] <= 1)
    /\ [](sync.pc \in {"export", "export_join", "returned"} =>
             \A u \in AllUrls : sync.task[u] \in {"none", "done"})
    /\ [](sync.pc \in {"export_join", "returned"} =>
             \A u \in AllUrls :
                 sync.dispatched[u] = IF u \in sync.discovered THEN 1 ELSE 0)
    /\ [](sync.pc = "returned" =>
             \A u \in AllUrls : sync.export_task[u] \in {"none", "done"})

\* C36 witness: the run has returned after it popped the three pages of
\* host h once each and dispatched, and saw finish, an export task for each.
C36_Witness ==
    /\ sync.pc = "returned"
    /\ sync.discovered = {UrlHRoot, UrlHx, UrlH20}
    /\ \A u \in sync.discovered :
           /\ sync.pops[u] = 1
           /\ sync.dispatched[u] = 1
           /\ sync.export_task[u] = "done"

\* C37: when add_url stops being called while get_next_url keeps being
\* called and time advances, every URL the Frontier admitted is returned
\* at some time, and from some time on the Frontier is empty for good.
C37_FrontierDrains ==
    /\ \A u \in Urls : (u \in frontier.seen_urls) ~> (popped[u] >= 1)
    /\ <>[](is_empty(frontier)
              /\ \A h \in DOMAIN frontier.host_queues :
                     frontier.host_queues[h].queue = EmptyQueue)

\* C37 witness: the three URLs were admitted (two of them on one host, so
\* that one had to wait for the politeness delay), all were returned, and
\* the Frontier is empty at a time when add_url is called no more.
C37_Witness ==
    /\ now = MaxTime
    /\ frontier.seen_urls = Urls
    /\ \A u \in Urls : popped[u] = 1
    /\ is_empty(frontier)

\* C38: a run works on a copy of the Crawler's Frontier. No admission and
\* no pop of a run changes the Frontier the Crawler holds, and each run of
\* the command begins with a Frontier equal to it, which is the one the
\* Crawler was built with: empty, and with none of the seen_urls of the
\* runs before.
C38_RunsOnACopy ==
    /\ [](crawler.frontier = NoCrawler.frontier)
    /\ [][crawler'.frontier = crawler.frontier]_vars
    /\ [][crawler'.scope # crawler.scope =>
             /\ frontier' = crawler.frontier
             /\ frontier'.seen_urls \cap crawler'.earlier = {}]_vars

\* C38 witness: the second run has admitted and popped https://h/x, which
\* the first run had admitted too.
C38_Witness ==
    /\ crawler.scope = 2
    /\ UrlHx \in crawler.earlier
    /\ UrlHx \in frontier.seen_urls
    /\ popped[UrlHx] = 1
====
